---- MODULE Spec2Model ----
(***************************************************************************)
(* LmdStorage (src/LmdStorage/LmdStorage.js, v1.3.1): a Map of items kept  *)
(* in one localStorage entry as JSON text.                                 *)
(*                                                                         *)
(* JavaScript values are records tagged by t.  A Map is the sequence of    *)
(* its entries in insertion order, a plain object the sequence of its own  *)
(* properties in enumeration order.  "cyclic" is a reference from inside   *)
(* an object back to one of the objects that contain it.  A string that    *)
(* holds JSON text is the sequence of its lexical tokens.                  *)
(***************************************************************************)
EXTENDS Integers, Sequences, FiniteSets, TLC

\* ---------------------------------------------------------------- values
Undef == [t |-> "undefined"]
Null == [t |-> "null"]
Bool(b) == [t |-> "boolean", b |-> b]
Num(n) == [t |-> "number", n |-> n]
Str(s) == [t |-> "string", s |-> s]
Fn == [t |-> "function"]
Cyc == [t |-> "cyclic"]
Arr(a) == [t |-> "array", a |-> a]
Obj(o) == [t |-> "object", o |-> o]
MapV(m) == [t |-> "Map", m |-> m]
Text(toks) == [t |-> "text", toks |-> toks]

\* a property of a plain object (k a string) or an entry of a Map (k a value)
Ent(k, v) == [k |-> k, v |-> v]

EmptyMap == MapV(<<>>)

\* ---------------------------------------------------------------- tokens
P(s) == [k |-> "punct", s |-> s]
TNull == [k |-> "null"]
TTrue == [k |-> "true"]
TFalse == [k |-> "false"]
TNum(n) == [k |-> "number", n |-> n]
TStr(s) == [k |-> "string", s |-> s]
TBad == [k |-> "illegal", s |-> "not"]

\* the text '{}'
EmptyObjText == Text(<<P("{"), P("}")>>)

\* default of the constructor's mapKey parameter
mapKey == "_map"

\* ------------------------------------------------- objects, Maps: helpers
HasOwn(o, key) == \E i \in 1..Len(o) : o[i].k = key

GetOwn(o, key) ==
    IF HasOwn(o, key) THEN o[CHOOSE i \in 1..Len(o) : o[i].k = key].v ELSE Undef

\* obj[key] = v : an existing property keeps its place
SetOwn(o, key, v) ==
    IF HasOwn(o, key)
    THEN [i \in 1..Len(o) |-> IF o[i].k = key THEN Ent(key, v) ELSE o[i]]
    ELSE Append(o, Ent(key, v))

\* objects are compared by identity: two objects built apart are never the same key
IsPrimitive(v) == v.t \in {"undefined", "null", "boolean", "number", "string"}

MapHas(m, key) == IsPrimitive(key) /\ \E i \in 1..Len(m) : m[i].k = key

MapGet(m, key) ==
    IF MapHas(m, key) THEN m[CHOOSE i \in 1..Len(m) : m[i].k = key].v ELSE Undef

\* Map.prototype.set : an existing key keeps its place
MapSet(m, key, v) ==
    IF MapHas(m, key)
    THEN [i \in 1..Len(m) |-> IF m[i].k = key THEN Ent(key, v) ELSE m[i]]
    ELSE Append(m, Ent(key, v))

RECURSIVE SeqWithout(_, _)
SeqWithout(m, key) ==
    IF m = <<>> THEN <<>>
    ELSE IF Head(m).k = key THEN Tail(m)
    ELSE <<Head(m)>> \o SeqWithout(Tail(m), key)

\* Map.prototype.delete
MapDelete(m, key) == IF MapHas(m, key) THEN SeqWithout(m, key) ELSE m

\* ------------------------------------------------------- JSON.stringify
\* the replacer function jsonify passes to JSON.stringify
replacer(value) ==
    IF value.t = "Map"
    THEN Obj(<<Ent(mapKey,
                   Arr([i \in 1..Len(value.m) |-> Arr(<<value.m[i].k, value.m[i].v>>)]))>>)
    ELSE value

SerThrow == [threw |-> TRUE, undef |-> FALSE, toks |-> <<>>]
SerUndef == [threw |-> FALSE, undef |-> TRUE, toks |-> <<>>]
SerToks(toks) == [threw |-> FALSE, undef |-> FALSE, toks |-> toks]

RECURSIVE JoinComma(_)
JoinComma(parts) ==
    IF parts = <<>> THEN <<>>
    ELSE IF Len(parts) = 1 THEN parts[1]
    ELSE parts[1] \o <<P(",")>> \o JoinComma(Tail(parts))

RECURSIVE SerializeJSONProperty(_), SerializeElements(_, _), SerializeMembers(_, _)

\* the value of one property after the replacer: its tokens, undefined, or a TypeError
\* (a Map the replacer did not replace has no own enumerable property)
SerializeJSONProperty(v) ==
    LET w == replacer(v) IN
    CASE w.t = "null" -> SerToks(<<TNull>>)
      [] w.t = "boolean" -> SerToks(IF w.b THEN <<TTrue>> ELSE <<TFalse>>)
      [] w.t = "number" -> SerToks(<<TNum(w.n)>>)
      [] w.t = "string" -> SerToks(<<TStr(w.s)>>)
      [] w.t \in {"undefined", "function"} -> SerUndef
      [] w.t = "cyclic" -> SerThrow
      [] w.t = "Map" -> SerToks(<<P("{"), P("}")>>)
      [] w.t = "array" ->
            LET r == SerializeElements(w.a, 1) IN
            IF r.threw THEN SerThrow
            ELSE SerToks(<<P("[")>> \o JoinComma(r.parts) \o <<P("]")>>)
      [] w.t = "object" ->
            LET r == SerializeMembers(w.o, 1) IN
            IF r.threw THEN SerThrow
            ELSE SerToks(<<P("{")>> \o JoinComma(r.parts) \o <<P("}")>>)

\* array elements from index i on: an element without a representation is written null
SerializeElements(a, i) ==
    IF i > Len(a) THEN [threw |-> FALSE, parts |-> <<>>]
    ELSE LET e == SerializeJSONProperty(a[i]) IN
         IF e.threw THEN [threw |-> TRUE, parts |-> <<>>]
         ELSE LET r == SerializeElements(a, i + 1) IN
              IF r.threw THEN r
              ELSE [threw |-> FALSE,
                    parts |-> <<IF e.undef THEN <<TNull>> ELSE e.toks>> \o r.parts]

\* own properties from index i on: a property without a representation is left out
SerializeMembers(o, i) ==
    IF i > Len(o) THEN [threw |-> FALSE, parts |-> <<>>]
    ELSE LET e == SerializeJSONProperty(o[i].v) IN
         IF e.threw THEN [threw |-> TRUE, parts |-> <<>>]
         ELSE LET r == SerializeMembers(o, i + 1) IN
              IF r.threw THEN r
              ELSE [threw |-> FALSE,
                    parts |-> (IF e.undef THEN <<>>
                               ELSE << <<TStr(o[i].k), P(":")>> \o e.toks >>) \o r.parts]

\* JSON.stringify(value, replacer)
JSONstringify(value) == SerializeJSONProperty(value)

\* ----------------------------------------------------------- JSON.parse
ParseFail == [ok |-> FALSE, v |-> Null, next |-> 0]
ParseOk(v, next) == [ok |-> TRUE, v |-> v, next |-> next]

IsPunct(toks, i, s) == i <= Len(toks) /\ toks[i].k = "punct" /\ toks[i].s = s

RECURSIVE ParseValue(_, _), ParseElements(_, _, _), ParseMembers(_, _, _)

\* the JSON value that starts at token i, and the index after it
ParseValue(toks, i) ==
    IF i > Len(toks) THEN ParseFail
    ELSE LET tk == toks[i] IN
         CASE tk.k = "null" -> ParseOk(Null, i + 1)
           [] tk.k = "true" -> ParseOk(Bool(TRUE), i + 1)
           [] tk.k = "false" -> ParseOk(Bool(FALSE), i + 1)
           [] tk.k = "number" -> ParseOk(Num(tk.n), i + 1)
           [] tk.k = "string" -> ParseOk(Str(tk.s), i + 1)
           [] tk.k = "punct" /\ tk.s = "[" ->
                 IF IsPunct(toks, i + 1, "]") THEN ParseOk(Arr(<<>>), i + 2)
                 ELSE ParseElements(toks, i + 1, <<>>)
           [] tk.k = "punct" /\ tk.s = "{" ->
                 IF IsPunct(toks, i + 1, "}") THEN ParseOk(Obj(<<>>), i + 2)
                 ELSE ParseMembers(toks, i + 1, <<>>)
           [] OTHER -> ParseFail

\* value (, value)* ]
ParseElements(toks, i, acc) ==
    LET r == ParseValue(toks, i) IN
    IF ~r.ok THEN ParseFail
    ELSE IF IsPunct(toks, r.next, ",") THEN ParseElements(toks, r.next + 1, Append(acc, r.v))
    ELSE IF IsPunct(toks, r.next, "]") THEN ParseOk(Arr(Append(acc, r.v)), r.next + 1)
    ELSE ParseFail

\* string : value (, string : value)* }   a repeated name keeps its last value
ParseMembers(toks, i, acc) ==
    IF ~(i <= Len(toks) /\ toks[i].k = "string" /\ IsPunct(toks, i + 1, ":")) THEN ParseFail
    ELSE LET r == ParseValue(toks, i + 2) IN
         IF ~r.ok THEN ParseFail
         ELSE IF IsPunct(toks, r.next, ",")
              THEN ParseMembers(toks, r.next + 1, SetOwn(acc, toks[i].s, r.v))
         ELSE IF IsPunct(toks, r.next, "}")
              THEN ParseOk(Obj(SetOwn(acc, toks[i].s, r.v)), r.next + 1)
         ELSE ParseFail

Threw == [threw |-> TRUE, v |-> Undef]
Ret(v) == [threw |-> FALSE, v |-> v]

\* element 0 or 1 of an entry object handed to new Map
EntryField(e, n) ==
    CASE e.t = "array" -> IF Len(e.a) > n THEN e.a[n + 1] ELSE Undef
      [] e.t = "object" -> GetOwn(e.o, IF n = 0 THEN "0" ELSE "1")
      [] OTHER -> Undef

RECURSIVE AddEntries(_, _, _)
AddEntries(m, a, i) ==
    IF i > Len(a) THEN Ret(MapV(m))
    ELSE IF a[i].t \notin {"array", "object", "Map"} THEN Threw
    ELSE AddEntries(MapSet(m, EntryField(a[i], 0), EntryField(a[i], 1)), a, i + 1)

\* new Map(iterable): a TypeError for what is not iterable or yields a non-object
NewMap(x) ==
    CASE x.t \in {"undefined", "null"} -> Ret(EmptyMap)
      [] x.t = "string" -> IF x.s = "" THEN Ret(EmptyMap) ELSE Threw
      [] x.t = "Map" -> Ret(x)
      [] x.t = "array" -> AddEntries(<<>>, x.a, 1)
      [] OTHER -> Threw

\* the reviver function mapify passes to JSON.parse
reviver(value) ==
    IF value.t \in {"array", "object"}
    THEN IF value.t = "object" /\ HasOwn(value.o, "hasOwnProperty")
         THEN Threw
         ELSE IF value.t = "object" /\ HasOwn(value.o, mapKey)
              THEN NewMap(GetOwn(value.o, mapKey))
              ELSE Ret(value)
    ELSE Ret(value)

RECURSIVE InternalizeJSONProperty(_), InternalizeElements(_, _, _), InternalizeMembers(_, _, _)

\* children first, then the reviver on the node itself
InternalizeJSONProperty(v) ==
    CASE v.t = "array" ->
            LET r == InternalizeElements(v.a, 1, <<>>) IN
            IF r.threw THEN Threw ELSE reviver(Arr(r.v))
      [] v.t = "object" ->
            LET r == InternalizeMembers(v.o, 1, <<>>) IN
            IF r.threw THEN Threw ELSE reviver(Obj(r.v))
      [] OTHER -> reviver(v)

InternalizeElements(a, i, acc) ==
    IF i > Len(a) THEN Ret(acc)
    ELSE LET e == InternalizeJSONProperty(a[i]) IN
         IF e.threw THEN Threw ELSE InternalizeElements(a, i + 1, Append(acc, e.v))

InternalizeMembers(o, i, acc) ==
    IF i > Len(o) THEN Ret(acc)
    ELSE LET e == InternalizeJSONProperty(o[i].v) IN
         IF e.threw THEN Threw ELSE InternalizeMembers(o, i + 1, Append(acc, Ent(o[i].k, e.v)))

\* JSON.parse(text, reviver): a SyntaxError unless the tokens are exactly one value
JSONparse(toks) ==
    LET r == ParseValue(toks, 1) IN
    IF r.ok /\ r.next = Len(toks) + 1 THEN InternalizeJSONProperty(r.v) ELSE Threw

\* ------------------------------------------------------ jsonify, mapify
\* jsonify with JSON.stringify outside try/catch
jsonify_uncaught(mapObj) ==
    IF mapObj.t = "Map"
    THEN LET r == JSONstringify(mapObj) IN
         IF r.threw THEN Threw
         ELSE IF ~r.undef THEN Ret(Text(r.toks)) ELSE Ret(EmptyObjText)
    ELSE Ret(EmptyObjText)

\* Map -> JSON text; '{}' for what is not a Map or cannot be serialised
jsonify(mapObj) ==
    IF mapObj.t = "Map"
    THEN LET r == JSONstringify(mapObj) IN
         IF ~r.threw /\ ~r.undef THEN Ret(Text(r.toks)) ELSE Ret(EmptyObjText)
    ELSE Ret(EmptyObjText)

\* mapify without the closing 'return new Map()'
mapify_noFallback(jsonStr) ==
    IF jsonStr.t \notin {"undefined", "null"} /\ jsonStr /= Text(<<>>)
    THEN LET r == JSONparse(jsonStr.toks) IN
         IF ~r.threw /\ r.v.t = "Map" THEN Ret(r.v) ELSE Ret(Undef)
    ELSE Ret(Undef)

\* mapify with JSON.parse outside try/catch
mapify_uncaught(jsonStr) ==
    IF jsonStr.t \notin {"undefined", "null"} /\ jsonStr /= Text(<<>>)
    THEN LET r == JSONparse(jsonStr.toks) IN
         IF r.threw THEN Threw
         ELSE IF r.v.t = "Map" THEN Ret(r.v) ELSE Ret(EmptyMap)
    ELSE Ret(EmptyMap)

\* mapify without the instanceof Map test
mapify_anyRoot(jsonStr) ==
    IF jsonStr.t \notin {"undefined", "null"} /\ jsonStr /= Text(<<>>)
    THEN LET r == JSONparse(jsonStr.toks) IN
         IF ~r.threw THEN Ret(r.v) ELSE Ret(EmptyMap)
    ELSE Ret(EmptyMap)

\* JSON text -> Map; an empty Map for no text, bad text, or a root that is no Map
mapify(jsonStr) ==
    IF jsonStr.t \notin {"undefined", "null"} /\ jsonStr /= Text(<<>>)
    THEN LET r == JSONparse(jsonStr.toks) IN
         IF ~r.threw /\ r.v.t = "Map" THEN Ret(r.v) ELSE Ret(EmptyMap)
    ELSE Ret(EmptyMap)

\* ------------------------------------------------- LmdStorage: methods
\* the store of the README, and another entry of the same localStorage
StoreName == "mystore"
OtherName == "userPrefs"
Names == {StoreName, OtherName}

\* what a method did: the instance's data and localStorage after it, the number of
\* localStorage.setItem calls it made, whether a storage call failed under it, and
\* whether it let an exception out
Out(d, store, writes, failed, threw) ==
    [data |-> d, ls |-> store, writes |-> writes, failed |-> failed, threw |-> threw]

\* localStorage.getItem under try/catch, then mapify; fails: the storage API throws
getStore(store, fails) ==
    LET savedData == IF fails THEN Undef ELSE store[StoreName] IN
    mapify(savedData).v

\* setStore without try/catch
setStore_uncaught(d, store, fails) ==
    IF fails THEN Out(d, store, 1, TRUE, TRUE)
    ELSE Out(d, [store EXCEPT ![StoreName] = jsonify(d).v], 1, FALSE, FALSE)

\* setStore that leaves the entry alone when the data cannot be serialised
setStore_keepsEntry(d, store, fails) ==
    IF fails THEN Out(d, store, 1, TRUE, FALSE)
    ELSE IF JSONstringify(d).threw THEN Out(d, store, 0, FALSE, FALSE)
    ELSE Out(d, [store EXCEPT ![StoreName] = jsonify(d).v], 1, FALSE, FALSE)

\* setStore that reads the entry and writes it merged with the data
setStore_merging(d, store, fails) ==
    IF fails THEN Out(d, store, 1, TRUE, FALSE)
    ELSE LET old == mapify(store[StoreName]).v
             merged == [i \in 1..Len(d.m) |-> d.m[i]]
                         \o SelectSeq(old.m, LAMBDA e : ~MapHas(d.m, e.k)) IN
         Out(d, [store EXCEPT ![StoreName] = jsonify(MapV(merged)).v], 1, FALSE, FALSE)

\* localStorage.setItem(storeName, jsonify(data)) under try/catch
setStore(d, store, fails) ==
    IF fails THEN Out(d, store, 1, TRUE, FALSE)
    ELSE Out(d, [store EXCEPT ![StoreName] = jsonify(d).v], 1, FALSE, FALSE)

\* new LmdStorage(storeKey)
constructor(store, fails) == Out(getStore(store, fails), store, 0, fails, FALSE)

count(d) == Len(d.m)

getItem(d, key) == MapGet(d.m, key)

getItems(d) == mapify(jsonify(d).v).v

\* setItem that saves whatever noSave says
setItem_alwaysSaves(d, store, key, val, noSave, fails) ==
    setStore(MapV(MapSet(d.m, key, val)), store, fails)

setItem(d, store, key, val, noSave, fails) ==
    LET d1 == MapV(MapSet(d.m, key, val)) IN
    IF ~noSave THEN setStore(d1, store, fails) ELSE Out(d1, store, 0, FALSE, FALSE)

RECURSIVE SetProps(_, _, _)
SetProps(m, o, i) ==
    IF i > Len(o) THEN m ELSE SetProps(MapSet(m, Str(o[i].k), o[i].v), o, i + 1)

\* setItems that saves whether or not a property was set
setItems_alwaysSaves(d, store, objData, noSave, fails) ==
    IF objData.t /= "object" THEN Out(d, store, 0, FALSE, FALSE)
    ELSE IF HasOwn(objData.o, "hasOwnProperty") THEN Out(d, store, 0, FALSE, TRUE)
    ELSE LET d1 == MapV(SetProps(d.m, objData.o, 1)) IN
         IF ~noSave THEN setStore(d1, store, fails) ELSE Out(d1, store, 0, FALSE, FALSE)

\* for (prop in objData) if (objData.hasOwnProperty(prop)) ...: nothing to enumerate in
\* null or undefined; an own property named hasOwnProperty is called in place of the method
setItems(d, store, objData, noSave, fails) ==
    IF objData.t /= "object" THEN Out(d, store, 0, FALSE, FALSE)
    ELSE IF HasOwn(objData.o, "hasOwnProperty") THEN Out(d, store, 0, FALSE, TRUE)
    ELSE LET d1 == MapV(SetProps(d.m, objData.o, 1))
             setCount == Len(objData.o) IN
         IF setCount > 0 /\ ~noSave THEN setStore(d1, store, fails)
         ELSE Out(d1, store, 0, FALSE, FALSE)

\* removeItem that saves whether or not the key was there
removeItem_alwaysSaves(d, store, key, noSave, fails) ==
    LET d1 == MapV(MapDelete(d.m, key)) IN
    IF ~noSave THEN setStore(d1, store, fails) ELSE Out(d1, store, 0, FALSE, FALSE)

removeItem(d, store, key, noSave, fails) ==
    LET d1 == MapV(MapDelete(d.m, key)) IN
    IF MapHas(d.m, key) /\ ~noSave THEN setStore(d1, store, fails)
    ELSE Out(d1, store, 0, FALSE, FALSE)

RECURSIVE DeleteKeys(_, _, _)
DeleteKeys(m, keys, i) ==
    IF i > Len(keys) THEN m ELSE DeleteKeys(MapDelete(m, keys[i]), keys, i + 1)

\* keys.length of null or undefined is a TypeError
removeItems(d, store, keys, noSave, fails) ==
    IF keys.t /= "array" THEN Out(d, store, 0, FALSE, TRUE)
    ELSE LET d1 == MapV(DeleteKeys(d.m, keys.a, 1))
             delCount == Len(d.m) - Len(d1.m) IN
         IF delCount > 0 /\ ~noSave THEN setStore(d1, store, fails)
         ELSE Out(d1, store, 0, FALSE, FALSE)

RECURSIVE SetEntries(_, _, _)
SetEntries(m, src, i) ==
    IF i > Len(src) THEN m ELSE SetEntries(MapSet(m, src[i].k, src[i].v), src, i + 1)

\* the result of the closing getStore() is dropped
saveAll(d, store, mapObj, fails) ==
    LET d1 == IF mapObj.t = "Map" THEN MapV(SetEntries(<<>>, mapObj.m, 1)) ELSE d IN
    setStore(d1, store, fails)

\* localStorage.clear() takes no argument: it removes every entry
clearAll(d, store, fails) ==
    IF fails THEN Out(EmptyMap, store, 0, TRUE, FALSE)
    ELSE Out(EmptyMap, [n \in Names |-> Null], 0, FALSE, FALSE)

\* ----------------------------------------------- LmdCookies: strings
\* (src/LmdCookies/LmdCookies.js, v1.1.1)  A string whose characters matter is the
\* sequence of its characters.
Chars(cs) == [t |-> "string", cs |-> cs]

DigitSeq == <<"0", "1", "2", "3", "4", "5", "6", "7", "8", "9">>
LowerSeq ==
    <<"a", "b", "c", "d", "e", "f", "g", "h", "i", "j", "k", "l", "m",
      "n", "o", "p", "q", "r", "s", "t", "u", "v", "w", "x", "y", "z">>
UpperSeq ==
    <<"A", "B", "C", "D", "E", "F", "G", "H", "I", "J", "K", "L", "M",
      "N", "O", "P", "Q", "R", "S", "T", "U", "V", "W", "X", "Y", "Z">>

Range(q) == {q[i] : i \in 1..Len(q)}
IndexOf(q, c) == CHOOSE i \in 1..Len(q) : q[i] = c

\* the classes \d, \w and \s of a regular expression
IsDigit(c) == c \in Range(DigitSeq)
IsWord(c) == c \in Range(DigitSeq) \cup Range(LowerSeq) \cup Range(UpperSeq) \cup {"_"}
IsSpace(c) == c \in {" ", "\t", "\n"}

\* String.prototype.toUpperCase
toUpperCase(cs) ==
    [i \in 1..Len(cs) |->
        IF cs[i] \in Range(LowerSeq) THEN UpperSeq[IndexOf(LowerSeq, cs[i])] ELSE cs[i]]

RECURSIVE parseInt(_)
\* parseInt of a run of decimal digits
parseInt(cs) ==
    IF cs = <<>> THEN 0
    ELSE 10 * parseInt(SubSeq(cs, 1, Len(cs) - 1)) + (IndexOf(DigitSeq, cs[Len(cs)]) - 1)

RECURSIVE RunEnd(_, _, _)
\* the last index of the longest run of characters of one class that starts at i, i - 1
\* when there is none
RunEnd(cs, i, digitsOnly) ==
    IF i <= Len(cs) /\ (IF digitsOnly THEN IsDigit(cs[i]) ELSE IsWord(cs[i]))
    THEN RunEnd(cs, i + 1, digitsOnly)
    ELSE i - 1

RECURSIVE split(_, _, _)
\* expires.split(/\s+/).filter(val => val): the runs of characters that are not white
\* space; cur is the run being read at i
split(cs, i, cur) ==
    IF i > Len(cs) THEN (IF cur = <<>> THEN <<>> ELSE <<cur>>)
    ELSE IF IsSpace(cs[i])
         THEN (IF cur = <<>> THEN <<>> ELSE <<cur>>) \o split(cs, i + 1, <<>>)
    ELSE split(cs, i + 1, Append(cur, cs[i]))

NoMatch == [found |-> FALSE, num |-> <<>>, tok |-> <<>>]

\* /(\d+)(\w+)/ tried at index i: \d+ takes the whole run of digits and \w+ the word
\* characters after it; with none after it, \d+ gives its last digit back to \w+
matchAt(cs, i) ==
    IF ~IsDigit(cs[i]) THEN NoMatch
    ELSE LET j == RunEnd(cs, i, TRUE)
             e == RunEnd(cs, j + 1, FALSE) IN
         IF e > j THEN [found |-> TRUE, num |-> SubSeq(cs, i, j), tok |-> SubSeq(cs, j + 1, e)]
         ELSE IF j > i
              THEN [found |-> TRUE, num |-> SubSeq(cs, i, j - 1), tok |-> SubSeq(cs, j, j)]
         ELSE NoMatch

\* (\d+)(\w) in place of (\d+)(\w+): the unit code is one character
match_oneLetter(cs) ==
    LET hits == {i \in 1..Len(cs) : matchAt(cs, i).found} IN
    IF hits = {} THEN NoMatch
    ELSE LET m == matchAt(cs, CHOOSE i \in hits : \A k \in hits : i <= k) IN
         [m EXCEPT !.tok = SubSeq(m.tok, 1, 1)]

\* tokens[i].match(/(\d+)(\w+)/i): the leftmost match, null for none
match(cs) ==
    LET hits == {i \in 1..Len(cs) : matchAt(cs, i).found} IN
    IF hits = {} THEN NoMatch
    ELSE matchAt(cs, CHOOSE i \in hits : \A k \in hits : i <= k)


\* ------------------------------------------------- LmdCookies: Date
\* A time value is a day counted from 1970-01-01 and a second of that day, UTC.  The
\* milliseconds of new Date() are kept by every setter below and dropped by
\* toUTCString; they are left out.
Time(day, sec) == [day |-> day, sec |-> sec]

\* a Date object
DateV(tv) == [t |-> "Date", d |-> tv]

\* the day of a year, a month 1..12 and a day of the month, in the Gregorian calendar
DaysFromCivil(y, m, d) ==
    LET yy == IF m <= 2 THEN y - 1 ELSE y
        era == yy \div 400
        yoe == yy - era * 400
        mp == IF m > 2 THEN m - 3 ELSE m + 9
        doy == (153 * mp + 2) \div 5 + d - 1
        doe == yoe * 365 + yoe \div 4 - yoe \div 100 + doy IN
    era * 146097 + doe - 719468

\* year, month 1..12 and day of the month of a day
CivilFromDays(z0) ==
    LET z == z0 + 719468
        era == z \div 146097
        doe == z - era * 146097
        yoe == (doe - doe \div 1460 + doe \div 36524 - doe \div 146096) \div 365
        doy == doe - (365 * yoe + yoe \div 4 - yoe \div 100)
        mp == (5 * doy + 2) \div 153
        d == doy - (153 * mp + 2) \div 5 + 1
        m == IF mp < 10 THEN mp + 3 ELSE mp - 9 IN
    [y |-> yoe + era * 400 + (IF m <= 2 THEN 1 ELSE 0), m |-> m, d |-> d]

getUTCFullYear(tv) == CivilFromDays(tv.day).y
getUTCMonth(tv) == CivilFromDays(tv.day).m - 1
getUTCDate(tv) == CivilFromDays(tv.day).d
getUTCHours(tv) == tv.sec \div 3600
getUTCMinutes(tv) == (tv.sec % 3600) \div 60
getUTCSeconds(tv) == tv.sec % 60
getUTCDay(tv) == (tv.day + 4) % 7

\* the abstract operations MakeDay, MakeTime and MakeDate of ECMAScript: a month past
\* December carries into the year, a day past the end of the month into the next
\* month, a time past the end of the day into the next day
MakeDay(year, month, date) ==
    DaysFromCivil(year + month \div 12, (month % 12) + 1, 1) + date - 1

MakeTime(hour, min, sec) == hour * 3600 + min * 60 + sec

\* MakeDate that lets the time wrap round without a change of day
MakeDate_noCarry(day, time) == Time(day, time % 86400)

MakeDate(day, time) == Time(day + time \div 86400, time % 86400)

setUTCFullYear(tv, year) ==
    MakeDate(MakeDay(year, getUTCMonth(tv), getUTCDate(tv)), tv.sec)

\* setUTCMonth that keeps the year
setUTCMonth_noCarry(tv, month) ==
    MakeDate(MakeDay(getUTCFullYear(tv), month % 12, getUTCDate(tv)), tv.sec)

setUTCMonth(tv, month) ==
    MakeDate(MakeDay(getUTCFullYear(tv), month, getUTCDate(tv)), tv.sec)

setUTCDate(tv, date) ==
    MakeDate(MakeDay(getUTCFullYear(tv), getUTCMonth(tv), date), tv.sec)

setUTCHours(tv, hour) ==
    MakeDate(tv.day, MakeTime(hour, getUTCMinutes(tv), getUTCSeconds(tv)))

setUTCMinutes(tv, min) ==
    MakeDate(tv.day, MakeTime(getUTCHours(tv), min, getUTCSeconds(tv)))

setUTCSeconds(tv, sec) ==
    MakeDate(tv.day, MakeTime(getUTCHours(tv), getUTCMinutes(tv), sec))

\* Date.UTC(year, month, date, hour, min, sec), month 0..11
UTC(year, month, date, hour, min, sec) ==
    MakeDate(MakeDay(year, month, date), MakeTime(hour, min, sec))

DayNames == <<"Sun", "Mon", "Tue", "Wed", "Thu", "Fri", "Sat">>
MonthNames ==
    <<"Jan", "Feb", "Mar", "Apr", "May", "Jun", "Jul", "Aug", "Sep", "Oct", "Nov", "Dec">>

\* Date.prototype.toUTCString: 'Tue, 15 Jul 2025 12:00:00 GMT', as the fields it prints
toUTCString(tv) ==
    [wd |-> DayNames[getUTCDay(tv) + 1], date |-> getUTCDate(tv),
     mon |-> MonthNames[getUTCMonth(tv) + 1], year |-> getUTCFullYear(tv),
     h |-> getUTCHours(tv), mi |-> getUTCMinutes(tv), s |-> getUTCSeconds(tv)]

\* ------------------------------------- LmdCookies.calcExpiresDate
\* the switch on the unit code, upper-cased
applyToken(now, num, tok) ==
    CASE tok = <<"Y">> -> setUTCFullYear(now, getUTCFullYear(now) + num)
      [] tok = <<"M">> -> setUTCMonth(now, getUTCMonth(now) + num)
      [] tok = <<"D">> -> setUTCDate(now, getUTCDate(now) + num)
      [] tok = <<"H">> -> setUTCHours(now, getUTCHours(now) + num)
      [] tok = <<"M", "I">> -> setUTCMinutes(now, getUTCMinutes(now) + num)
      [] tok = <<"S">> -> setUTCSeconds(now, getUTCSeconds(now) + num)
      [] tok = <<"W">> -> setUTCDate(now, getUTCDate(now) + num * 7)
      [] OTHER -> now

RECURSIVE applyTokens(_, _, _)
\* the loop over the tokens: destructuring the null of a token that does not match
\* is a TypeError
applyTokens(now, tokens, i) ==
    IF i > Len(tokens) THEN Ret(now)
    ELSE LET m == match(tokens[i]) IN
         IF ~m.found THEN Threw
         ELSE applyTokens(applyToken(now, parseInt(m.num), toUpperCase(m.tok)), tokens, i + 1)

\* calcExpiresDate(expires) called at the time now; expires.split of what is neither a
\* Date nor a string is a TypeError
calcExpiresDate(expires, now) ==
    IF expires.t = "Date" THEN Ret(toUTCString(expires.d))
    ELSE IF expires.t /= "string" THEN Threw
    ELSE LET tokens == split(expires.cs, 1, <<>>) IN
         IF Len(tokens) > 0
         THEN LET r == applyTokens(now, tokens, 1) IN
              IF r.threw THEN Threw ELSE Ret(toUTCString(r.v))
         ELSE Ret(toUTCString(setUTCFullYear(now, getUTCFullYear(now) + 1)))


\* ------------------------------------------- LmdCookies: the cookie jar
\* characters encodeURIComponent escapes, with their escapes
Escapes ==
    <<[c |-> " ", e |-> <<"%", "2", "0">>], [c |-> "=", e |-> <<"%", "3", "D">>],
      [c |-> ";", e |-> <<"%", "3", "B">>], [c |-> "%", e |-> <<"%", "2", "5">>]>>

RECURSIVE encodeURIComponent(_)
encodeURIComponent(cs) ==
    IF cs = <<>> THEN <<>>
    ELSE LET hit == {i \in 1..Len(Escapes) : Escapes[i].c = cs[1]} IN
         (IF hit = {} THEN <<cs[1]>> ELSE Escapes[CHOOSE i \in hit : TRUE].e)
            \o encodeURIComponent(Tail(cs))

RECURSIVE decodeURIComponent(_)
\* a % that starts no escape is a URIError
decodeURIComponent(cs) ==
    IF cs = <<>> THEN Ret(<<>>)
    ELSE IF cs[1] /= "%"
         THEN LET r == decodeURIComponent(Tail(cs)) IN
              IF r.threw THEN Threw ELSE Ret(<<cs[1]>> \o r.v)
    ELSE LET hit == {i \in 1..Len(Escapes) :
                        Len(cs) >= 3 /\ SubSeq(cs, 1, 3) = Escapes[i].e} IN
         IF hit = {} THEN Threw
         ELSE LET r == decodeURIComponent(SubSeq(cs, 4, Len(cs))) IN
              IF r.threw THEN Threw
              ELSE Ret(<<Escapes[CHOOSE i \in hit : TRUE].c>> \o r.v)

\* the text 'undefined', which String(undefined) gives and JSON.parse rejects
UndefinedText == Text(<<[k |-> "illegal", s |-> "undefined"]>>)

\* a cookie of the jar: its name as written and its value, the escaped form of a text
Cookie(name, value) == [name |-> name, value |-> value]

\* a constructor that leaves cookieSecure as it was passed
Config_asPassed(prefix, path, domain, secure, sameSite) ==
    LET isStr(x) == x.t = "string" /\ x.cs /= <<>> IN
    [cookiePrefix |-> IF isStr(prefix) THEN prefix.cs \o <<"_">> ELSE <<>>,
     cookiePath |-> IF isStr(path) THEN path ELSE Null,
     cookieDomain |-> IF isStr(domain) THEN domain ELSE Null,
     cookieSecure |-> IF secure.t = "boolean" THEN secure.b ELSE FALSE,
     cookieSamesite |-> IF isStr(sameSite) THEN sameSite.cs ELSE <<"l", "a", "x">>,
     cookiePrefixEnc |-> IF isStr(prefix) THEN encodeURIComponent(prefix.cs) \o <<"_">>
                         ELSE <<>>]

\* the fields of an instance
Config(prefix, path, domain, secure, sameSite) ==
    LET isStr(x) == x.t = "string" /\ x.cs /= <<>>
        cookieSamesite == IF isStr(sameSite) THEN sameSite.cs ELSE <<"l", "a", "x">> IN
    [cookiePrefix |-> IF isStr(prefix) THEN prefix.cs \o <<"_">> ELSE <<>>,
     cookiePath |-> IF isStr(path) THEN path ELSE Null,
     cookieDomain |-> IF isStr(domain) THEN domain ELSE Null,
     cookieSecure |-> IF cookieSamesite = <<"n", "o", "n", "e">> THEN TRUE
                      ELSE IF secure.t = "boolean" THEN secure.b ELSE FALSE,
     cookieSamesite |-> cookieSamesite,
     cookiePrefixEnc |-> IF isStr(prefix) THEN encodeURIComponent(prefix.cs) \o <<"_">>
                         ELSE <<>>]

\* cookie.indexOf(prefix) === 0
StartsWith(cs, prefix) == Len(cs) >= Len(prefix) /\ SubSeq(cs, 1, Len(prefix)) = prefix

RECURSIVE getCookies_all(_, _, _, _)
\* getCookies without the test of the prefix
getCookies_all(c, jar, i, cookieJar) ==
    IF i > Len(jar) THEN Ret(Obj(cookieJar))
    ELSE LET key == decodeURIComponent(jar[i].name)
             r == ParseValue(jar[i].value.toks, 1)
             val == IF r.ok /\ r.next = Len(jar[i].value.toks) + 1 THEN r.v ELSE Null IN
         IF key.threw THEN Threw
         ELSE getCookies_all(c, jar, i + 1, SetOwn(cookieJar, key.v, val))

RECURSIVE getCookies(_, _, _, _)
\* getCookies(): the cookies of document.cookie from the i-th on are added to cookieJar;
\* decodeURIComponent is outside the try, JSON.parse inside it
getCookies(c, jar, i, cookieJar) ==
    IF i > Len(jar) THEN Ret(Obj(cookieJar))
    ELSE IF c.cookiePrefixEnc /= <<>> /\ ~StartsWith(jar[i].name, c.cookiePrefixEnc)
         THEN getCookies(c, jar, i + 1, cookieJar)
    ELSE LET key == decodeURIComponent(jar[i].name)
             r == ParseValue(jar[i].value.toks, 1)
             val == IF r.ok /\ r.next = Len(jar[i].value.toks) + 1 THEN r.v ELSE Null IN
         IF key.threw THEN Threw
         ELSE getCookies(c, jar, i + 1, SetOwn(cookieJar, key.v, val))

RECURSIVE JarWithout(_, _)
JarWithout(jar, name) ==
    IF jar = <<>> THEN <<>>
    ELSE IF Head(jar).name = name THEN JarWithout(Tail(jar), name)
    ELSE <<Head(jar)>> \o JarWithout(Tail(jar), name)

\* the time an expires attribute names
TimeOf(utc) ==
    UTC(utc.year, IndexOf(MonthNames, utc.mon) - 1, utc.date, utc.h, utc.mi, utc.s)

NotAfter(a, b) == a.day < b.day \/ (a.day = b.day /\ a.sec <= b.sec)

\* document.cookie = cookieText, at the time now: the browser drops the cookie of that
\* name when the text expires it, and keeps the text's value for the name when not
AssignCookie(jar, text, now) ==
    IF text.expires /= Undef /\ NotAfter(TimeOf(text.expires), now)
    THEN JarWithout(jar, text.name)
    ELSE IF \E i \in 1..Len(jar) : jar[i].name = text.name
         THEN [i \in 1..Len(jar) |->
                 IF jar[i].name = text.name THEN Cookie(text.name, text.value) ELSE jar[i]]
    ELSE Append(jar, Cookie(text.name, text.value))

\* what a call of set did: this.data and the jar after it, the text it assigned to
\* document.cookie (undefined for none), whether it let an exception out
KOut(d, jar, text, threw) == [data |-> d, jar |-> jar, text |-> text, threw |-> threw]

Session == Chars(<<"s", "e", "s", "s", "i", "o", "n">>)

\* a cookie text that is a session cookie's when calcExpiresDate throws
cookieText_sessionOnFailure(c, name, value, expiresAttr) ==
    LET json == SerializeJSONProperty(value) IN
    IF json.threw THEN Threw
    ELSE Ret([name |-> c.cookiePrefixEnc \o encodeURIComponent(name),
              value |-> IF json.undef THEN UndefinedText ELSE Text(json.toks),
              expires |-> IF expiresAttr.threw THEN Undef ELSE expiresAttr.v,
              path |-> c.cookiePath,
              domain |-> c.cookieDomain,
              secure |-> c.cookieSecure,
              samesite |-> c.cookieSamesite])

\* the cookie text set builds, an exception where JSON.stringify or calcExpiresDate
\* throws one
cookieText(c, name, value, expiresAttr) ==
    LET json == SerializeJSONProperty(value) IN
    IF json.threw \/ expiresAttr.threw THEN Threw
    ELSE Ret([name |-> c.cookiePrefixEnc \o encodeURIComponent(name),
              value |-> IF json.undef THEN UndefinedText ELSE Text(json.toks),
              expires |-> expiresAttr.v,
              path |-> c.cookiePath,
              domain |-> c.cookieDomain,
              secure |-> c.cookieSecure,
              samesite |-> c.cookieSamesite])

\* set without the refresh of this.data
Assigned_noRefresh(c, d, jar, text, now) ==
    IF text.threw THEN KOut(d, jar, Undef, FALSE)
    ELSE KOut(d, AssignCookie(jar, text.v, now), text.v, FALSE)

\* document.cookie = cookieText; this.data = this.getCookies(), inside the try of set
Assigned(c, d, jar, text, now) ==
    IF text.threw THEN KOut(d, jar, Undef, FALSE)
    ELSE LET jar1 == AssignCookie(jar, text.v, now)
             got == getCookies(c, jar1, 1, <<>>) IN
         KOut(IF got.threw THEN d ELSE got.v, jar1, text.v, FALSE)

\* set that has no session cookies: the expires attribute is always written
set_alwaysExpires(c, d, jar, name, value, expires, now) ==
    Assigned(c, d, jar, cookieText(c, name, value, calcExpiresDate(expires, now)), now)

\* set(name, value, expires) called at the time now
set(c, d, jar, name, value, expires, now) ==
    LET expiresAttr ==
            IF expires /= Session THEN calcExpiresDate(expires, now) ELSE Ret(Undef) IN
    Assigned(c, d, jar, cookieText(c, name, value, expiresAttr), now)

\* remove(name)
remove(c, d, jar, name, now) == set(c, d, jar, name, Str(""), DateV(Time(0, 0)), now)

testKey ==
    <<"_", "l", "m", "d", "c", "o", "o", "k", "i", "e", "s", "_", "t", "e", "s", "t">>

\* document.cookie.indexOf(sub) != -1, for a sub that the values of the jar do not hold
Includes(jar, sub) ==
    \E i \in 1..Len(jar) :
        \E at \in 1..Len(jar[i].name) :
            at + Len(sub) - 1 <= Len(jar[i].name)
              /\ SubSeq(jar[i].name, at, at + Len(sub) - 1) = sub

\* the text testKey + '=LmdCookiesTest;SameSite=Strict': a session cookie whose value
\* is no JSON text
TestCookie ==
    [name |-> testKey, value |-> Text(<<[k |-> "illegal", s |-> "LmdCookiesTest"]>>),
     expires |-> Undef, path |-> Null, domain |-> Null, secure |-> FALSE,
     samesite |-> <<"S", "t", "r", "i", "c", "t">>]

\* get isEnabled, read at the time now: _isEnabled and the jar after it; cookieEnabled is
\* navigator.cookieEnabled
isEnabled(en, jar, cookieEnabled, now) ==
    IF en \notin {Undef, Null} THEN [enabled |-> en, jar |-> jar]
    ELSE IF Includes(jar, testKey) THEN [enabled |-> Bool(TRUE), jar |-> jar]
    ELSE IF ~cookieEnabled THEN [enabled |-> Bool(FALSE), jar |-> jar]
    ELSE LET jar1 == AssignCookie(jar, TestCookie, now) IN
         [enabled |-> Bool(Includes(jar1, testKey)), jar |-> jar1]

\* count of LmdCookies
cookieCount(d) == IF d \in {Undef, Null} THEN 0 ELSE Len(d.o)

\* has(name), get(name)
has(c, d, name) == HasOwn(d.o, c.cookiePrefix \o name)
get(c, d, name) == GetOwn(d.o, c.cookiePrefix \o name)


\* ------------------------------------------------ LmdCookie (0.2.0 alpha)
\* the fields of an LmdCookie instance: the test of cookiePrefix reads sameSite, and
\* prefix + '_' of the default prefix '' is '_'
LmdCookie(prefix, path, domain, secure, sameSite) ==
    LET isStr(x) == x.t = "string" /\ x.cs /= <<>>
        same == IF sameSite = Undef THEN Chars(<<"L", "a", "x">>) ELSE sameSite
        pre == IF prefix = Undef THEN Chars(<<>>) ELSE prefix IN
    [cookiePrefix |-> IF isStr(same) THEN pre.cs \o <<"_">> ELSE <<>>,
     cookiePath |-> IF path = Undef THEN Null ELSE path,
     cookieDomain |-> IF domain = Undef THEN Null ELSE domain,
     cookieSecure |-> IF secure.t = "boolean" THEN secure.b ELSE FALSE,
     cookieSamesite |-> IF isStr(same) THEN same.cs ELSE <<"L", "a", "x">>]

\* getCookies() of LmdCookie: every cookie of the jar
LmdCookie_getCookies(jar) == getCookies([cookiePrefixEnc |-> <<>>], jar, 1, <<>>)

RECURSIVE splitSpace(_, _, _)
\* expires.split(' '): cut at every space, empty pieces kept
splitSpace(cs, i, cur) ==
    IF i > Len(cs) THEN <<cur>>
    ELSE IF cs[i] = " " THEN <<cur>> \o splitSpace(cs, i + 1, <<>>)
    ELSE splitSpace(cs, i + 1, Append(cur, cs[i]))

\* calcExpiresDate(expires) of LmdCookie called at the time now
LmdCookie_calcExpiresDate(expires, now) ==
    IF expires.t /= "string" THEN Threw
    ELSE LET r == applyTokens(now, splitSpace(expires.cs, 1, <<>>), 1) IN
         IF r.threw THEN Threw ELSE Ret(toUTCString(r.v))

\* getCookie(name)
getCookie(c, d, name) == GetOwn(d.o, c.cookiePrefix \o name)

\* setCookie(name, value, expires) called at the time now: the text is assigned to
\* document.cookie, this.data is left as it is
setCookie(c, d, jar, name, value, expires, now) ==
    LET json == SerializeJSONProperty(value)
        expiresAttr ==
            IF expires.t = "Date" THEN Ret(toUTCString(expires.d))
            ELSE LmdCookie_calcExpiresDate(
                    IF expires = Chars(<<>>) THEN Chars(<<"1", "y">>) ELSE expires, now) IN
    IF json.threw \/ expiresAttr.threw THEN KOut(d, jar, Undef, FALSE)
    ELSE LET text == [name |-> encodeURIComponent(c.cookiePrefix \o name),
                      value |-> IF json.undef THEN UndefinedText ELSE Text(json.toks),
                      expires |-> expiresAttr.v,
                      path |-> c.cookiePath,
                      domain |-> c.cookieDomain,
                      secure |-> c.cookieSecure,
                      samesite |-> c.cookieSamesite] IN
         KOut(d, AssignCookie(jar, text, now), text, FALSE)

\* removeCookie(name)
removeCookie(c, d, jar, name, now) ==
    setCookie(c, d, jar, name, Str(""), DateV(Time(0, 0)), now)


\* ---------------------------------------------------------------- bounds
MaxDepth == 2
MaxToks == 4

\* ------------------------------------------------------------ the inputs
Atoms == {Null, Bool(TRUE), Num(1), Str("x"), Fn, Cyc}
ObjKeys == {"a", mapKey, "hasOwnProperty"}

RECURSIVE Values(_)
Values(d) ==
    IF d = 0 THEN Atoms
    ELSE LET S == Values(d - 1) IN
         Atoms \cup {Arr(<<>>), Obj(<<>>), EmptyMap}
               \cup {Arr(<<v>>) : v \in S}
               \cup {Obj(<<Ent(k, v)>>) : k \in ObjKeys, v \in S}
               \cup {MapV(<<Ent(Str("a"), v)>>) : v \in S}

\* values with more than one element, property or entry
Wide ==
    {Arr(<<Num(1), Null, Str("x")>>),
     Obj(<<Ent("b", Num(1)), Ent("a", Arr(<<EmptyMap>>))>>),
     MapV(<<Ent(Str("b"), Num(1)), Ent(Str("a"), MapV(<<Ent(Str("c"), Null)>>))>>),
     Obj(<<Ent(mapKey, Arr(<<Arr(<<Str("k"), Num(1)>>)>>))>>)}

RootMaps ==
    {EmptyMap}
      \cup {MapV(<<Ent(Str("a"), v)>>) : v \in Values(MaxDepth) \cup Wide}
      \cup {MapV(<<Ent(Str("a"), v), Ent(Str("b"), w)>>) :
                v \in Values(MaxDepth), w \in {Null, Str("x")}}
      \cup {MapV(<<Ent(Str("b"), w), Ent(Str("a"), v)>>) :
                v \in Values(MaxDepth), w \in {Null, Str("x")}}

JsonifyArgs == RootMaps \cup (Values(1) \ {EmptyMap, MapV(<<Ent(Str("a"), Null)>>)})

Alphabet ==
    {P("{"), P("}"), P("["), P("]"), P(":"), P(","), TNull, TStr(mapKey), TStr("a"), TBad}

RECURSIVE TokSeqs(_)
TokSeqs(n) ==
    IF n = 0 THEN {<<>>}
    ELSE LET S == TokSeqs(n - 1) IN S \cup {Append(q, tk) : q \in S, tk \in Alphabet}

TextArgs == {Undef, Null} \cup {Text(q) : q \in TokSeqs(MaxToks)}

\* items and arguments of the store's methods
Keys == {Str("a"), Str("b")}
SelfRef == Obj(<<Ent("self", Cyc)>>)
Nested == MapV(<<Ent(Str("a"), Num(1))>>)
StoreVals == {Num(1), Nested, SelfRef}

ObjArgs ==
    {Null, Obj(<<>>),
     Obj(<<Ent("a", Num(1))>>),
     Obj(<<Ent("b", Nested), Ent("a", Num(1))>>),
     Obj(<<Ent("a", Num(1)), Ent("hasOwnProperty", Num(1))>>)}

KeysArgs ==
    {Null, Arr(<<>>), Arr(<<Str("a")>>), Arr(<<Str("b"), Str("a")>>), Arr(<<Str("b"), Str("b")>>)}

MapArgs ==
    {Null, Obj(<<Ent("a", Num(1))>>), EmptyMap,
     MapV(<<Ent(Str("b"), Num(1))>>),
     MapV(<<Ent(Str("b"), Nested), Ent(Str("a"), Num(1))>>)}

\* what the entry may hold when the page loads
SavedTexts ==
    {Null, Text(<<>>), Text(<<P("{"), TBad, TBad>>),
     jsonify(MapV(<<Ent(Str("b"), Str("x")), Ent(Str("a"), Nested)>>)).v}

\* ----------------------------------------------------------------- state
VARIABLES
    jpc,     \* jsonify/mapify called on their own: "value", "text", "done"; else "idle"
    jsrc,    \* where jtext comes from: "arg", "jsonify", "cut"
    jarg,    \* the argument of jsonify
    jtext,   \* what jsonify returned, the argument of mapify
    jres,    \* what mapify returned
    jthrew,  \* a call let an exception out
    data,    \* this.data of the LmdStorage instance
    ls,      \* localStorage: the text of each entry, null for none
    last,    \* the last call on the instance and what it did
    copy,    \* the Map the caller holds: what getItems returned, changed by the caller since
    ref,     \* what copy shares with this.data: "none" (no copy), "fresh", "items", "same"
    dataB,   \* this.data of a second instance on the same store name, undefined for none
    writer,  \* the instance that wrote the entry last: "A" (data), "B" (dataB), "none"
    dpc,     \* calcExpiresDate called on its own: "call", "done"; else "idle"
    now,     \* what new Date() gives when calcExpiresDate or set is called
    expires, \* the expires argument
    dtoks,   \* the <digits><code> pairs expires was written from, where it was
    dres,    \* what calcExpiresDate returned
    cfg,     \* the fields of the LmdCookies instance, undefined for none
    jar,     \* the cookies document.cookie lists, in its order
    cdata,   \* this.data of the LmdCookies instance
    clast,   \* the last call on the LmdCookies instance and what it did
    enabled, \* this._isEnabled of the LmdCookies instance
    jarN,    \* the jar, had the same calls been made without the reads of isEnabled
    cdataN   \* this.data, had the same calls been made without the reads of isEnabled

jvars == <<jpc, jsrc, jarg, jtext, jres, jthrew>>
svars == <<data, ls, last>>
cvars == <<copy, ref>>
tvars == <<dataB, writer>>
dvars == <<dpc, now, expires, dtoks, dres>>
kvars == <<cfg, jar, cdata, clast>>
evars == <<enabled, jarN, cdataN>>
vars ==
    <<jpc, jsrc, jarg, jtext, jres, jthrew, data, ls, last, copy, ref, dataB, writer,
      dpc, now, expires, dtoks, dres, cfg, jar, cdata, clast, enabled, jarN, cdataN>>

\* what the calls of jsonify and mapify on their own, and the calls on the store, leave alone
notJson == <<svars, cvars, tvars, dvars, kvars, evars>>
notStore == <<jvars, cvars, tvars, dvars, kvars, evars>>
notCopy == <<jvars, tvars, dvars, kvars, evars>>
notTwo == <<jvars, cvars, dvars, kvars, evars>>
notDate == <<jvars, svars, cvars, tvars, kvars, evars>>
notCookies == <<jvars, svars, cvars, tvars, dvars>>

\* the caller holds no Map
NoCopy == copy = Undef /\ ref = "none"

\* there is one instance
NoSecond == dataB = Undef /\ writer = "none"

NoToks == [ok |-> FALSE, l |-> <<>>]

\* a call on the LmdCookies instance
KCall(op, name, value, exp, out) ==
    [op |-> op, name |-> name, value |-> value, expires |-> exp,
     text |-> out.text, threw |-> out.threw]

NoSet == KCall("none", <<>>, Undef, Undef, KOut(Undef, <<>>, Undef, FALSE))

\* there is no LmdCookies instance
NoShadow == enabled = Undef /\ jarN = <<>> /\ cdataN = Undef

NoCookies == cfg = Undef /\ jar = <<>> /\ cdata = Undef /\ clast = NoSet /\ NoShadow

\* calcExpiresDate is not called on its own
NoDate ==
    /\ dpc = "idle" /\ now = Time(0, 0) /\ expires = Undef
    /\ dtoks = NoToks /\ dres = Undef

\* jsonify and mapify are not called on their own
NoJson ==
    /\ jpc = "idle" /\ jsrc = "arg" /\ jarg = Undef /\ jtext = Undef
    /\ jres = Undef /\ jthrew = FALSE

Call(op, arg, val, noSave, out) ==
    [op |-> op, arg |-> arg, val |-> val, noSave |-> noSave,
     writes |-> out.writes, failed |-> out.failed, threw |-> out.threw]

NoCall == Call("none", Undef, Undef, FALSE, Out(EmptyMap, <<>>, 0, FALSE, FALSE))

\* there is no LmdStorage instance
NoStore == data = EmptyMap /\ ls = [n \in Names |-> Null] /\ last = NoCall

\* jsonify and mapify called on their own
JInit ==
    /\ jres = Undef
    /\ jthrew = FALSE
    /\ \/ jpc = "value" /\ jsrc = "jsonify" /\ jarg \in JsonifyArgs /\ jtext = Undef
       \/ jpc = "text" /\ jsrc = "arg" /\ jarg = Undef /\ jtext \in TextArgs
    /\ data = EmptyMap
    /\ ls = [n \in Names |-> Null]
    /\ last = NoCall
    /\ NoCopy
    /\ NoSecond
    /\ NoDate
    /\ NoCookies

\* jtext = jsonify(jarg)
CallJsonify ==
    /\ jpc = "value"
    /\ LET r == jsonify(jarg) IN
         /\ jtext' = r.v
         /\ jthrew' = r.threw
         /\ jpc' = IF r.threw THEN "done" ELSE "text"
    /\ UNCHANGED <<jsrc, jarg, jres>>
    /\ UNCHANGED notJson

\* the text loses its last token before it is read back
Truncate ==
    /\ jpc = "text" /\ jsrc = "jsonify"
    /\ jtext' = Text(SubSeq(jtext.toks, 1, Len(jtext.toks) - 1))
    /\ jsrc' = "cut"
    /\ UNCHANGED <<jpc, jarg, jres, jthrew>>
    /\ UNCHANGED notJson

\* jres = mapify(jtext)
CallMapify ==
    /\ jpc = "text"
    /\ LET r == mapify(jtext) IN
         /\ jres' = r.v
         /\ jthrew' = r.threw
    /\ jpc' = "done"
    /\ UNCHANGED <<jsrc, jarg, jtext>>
    /\ UNCHANGED notJson

JNext == CallJsonify \/ Truncate \/ CallMapify

SpecJson == JInit /\ [][JNext]_vars

\* a page load: the store is constructed on what localStorage holds
Init ==
    /\ NoJson
    /\ NoCopy
    /\ NoSecond
    /\ NoDate
    /\ NoCookies
    /\ \E saved \in SavedTexts, fails \in BOOLEAN :
         LET store == [n \in Names |-> IF n = StoreName THEN saved ELSE Text(<<TStr("dark")>>)]
             out == constructor(store, fails) IN
         /\ data = out.data
         /\ ls = out.ls
         /\ last = Call("constructor", Undef, Undef, FALSE, out)

\* whether the storage API throws under a call: it matters only to a call that saves
Fails(noSave) == IF noSave THEN {FALSE} ELSE BOOLEAN

\* the page is loaded again
Construct ==
    \E fails \in BOOLEAN :
        \E out \in {constructor(ls, fails)} :
        /\ data' = out.data
        /\ ls' = out.ls
        /\ last' = Call("constructor", Undef, Undef, FALSE, out)
        /\ UNCHANGED notStore

SetItem ==
    \E key \in Keys, val \in StoreVals, noSave \in BOOLEAN :
        \E fails \in Fails(noSave) :
        \E out \in {setItem(data, ls, key, val, noSave, fails)} :
        /\ data' = out.data
        /\ ls' = out.ls
        /\ last' = Call("setItem", key, val, noSave, out)
        /\ UNCHANGED notStore

SetItems ==
    \E objData \in ObjArgs, noSave \in BOOLEAN :
        \E fails \in Fails(noSave) :
        \E out \in {setItems(data, ls, objData, noSave, fails)} :
        /\ data' = out.data
        /\ ls' = out.ls
        /\ last' = Call("setItems", objData, Undef, noSave, out)
        /\ UNCHANGED notStore

RemoveItem ==
    \E key \in Keys, noSave \in BOOLEAN :
        \E fails \in Fails(noSave) :
        \E out \in {removeItem(data, ls, key, noSave, fails)} :
        /\ data' = out.data
        /\ ls' = out.ls
        /\ last' = Call("removeItem", key, Undef, noSave, out)
        /\ UNCHANGED notStore

RemoveItems ==
    \E keys \in KeysArgs, noSave \in BOOLEAN :
        \E fails \in Fails(noSave) :
        \E out \in {removeItems(data, ls, keys, noSave, fails)} :
        /\ data' = out.data
        /\ ls' = out.ls
        /\ last' = Call("removeItems", keys, Undef, noSave, out)
        /\ UNCHANGED notStore

SaveAll ==
    \E mapObj \in MapArgs, fails \in BOOLEAN :
        \E out \in {saveAll(data, ls, mapObj, fails)} :
        /\ data' = out.data
        /\ ls' = out.ls
        /\ last' = Call("saveAll", mapObj, Undef, FALSE, out)
        /\ UNCHANGED notStore

ClearAll ==
    \E fails \in BOOLEAN :
        \E out \in {clearAll(data, ls, fails)} :
        /\ data' = out.data
        /\ ls' = out.ls
        /\ last' = Call("clearAll", Undef, Undef, FALSE, out)
        /\ UNCHANGED notStore

Next ==
    \/ Construct
    \/ SetItem
    \/ SetItems
    \/ RemoveItem
    \/ RemoveItems
    \/ SaveAll
    \/ ClearAll

Spec == Init /\ [][Next]_vars

\* ------------------------------------------- a caller working on a copy
\* how many elements the caller pushes on one array
MaxPush == 1

\* what the caller sets in its Map: an array, a plain object keyed by mapKey
CopyVals == {Arr(<<>>), Obj(<<Ent(mapKey, Bool(TRUE))>>)}

\* what the entry holds when the page loads
CopySaved == {Null, jsonify(MapV(<<Ent(Str("a"), Arr(<<>>)), Ent(Str("b"), Num(1))>>)).v}

\* the caller changes a Map, an object or an array in place: m.set('c', 1), o.c = 1,
\* a.push(null)
Touch(v) ==
    CASE v.t = "array" -> Arr(Append(v.a, Null))
      [] v.t = "object" -> Obj(SetOwn(v.o, "c", Num(1)))
      [] v.t = "Map" -> MapV(MapSet(v.m, Str("c"), Num(1)))
      [] OTHER -> v

CanTouch(v) ==
    \/ v.t = "array" /\ Len(v.a) < MaxPush
    \/ v.t = "object" /\ ~HasOwn(v.o, "c")
    \/ v.t = "Map" /\ ~MapHas(v.m, Str("c"))

\* this.data after the caller changed its own Map from before to after at the top level:
\* the same Map changes with it, any other Map does not
SeenAtTop(d, r, after) == IF r = "same" THEN after ELSE d

\* this.data after the caller changed in place the value its Map holds under key: the
\* store sees it where it holds the very same object, in the same Map or in one that was
\* filled with the caller's values
SeenInside(d, r, key, before, after) ==
    IF r = "same" THEN after
    ELSE IF r = "items" /\ MapHas(d.m, key) /\ MapGet(d.m, key) = MapGet(before.m, key)
         THEN MapV(MapSet(d.m, key, MapGet(after.m, key)))
    ELSE d

CInit ==
    /\ NoJson
    /\ NoCopy
    /\ NoSecond
    /\ NoDate
    /\ NoCookies
    /\ \E saved \in CopySaved :
         LET store == [n \in Names |-> IF n = StoreName THEN saved ELSE Null]
             out == constructor(store, FALSE) IN
         /\ data = out.data
         /\ ls = out.ls
         /\ last = Call("constructor", Undef, Undef, FALSE, out)

\* let mydata = store.getItems(): the Map is built by JSON.parse from a string
GetItems ==
    /\ \E got \in {getItems(data)} :
         /\ copy' = got
         /\ ref' = "fresh"
    /\ last' = Call("getItems", Undef, Undef, FALSE, Out(data, ls, 0, FALSE, FALSE))
    /\ UNCHANGED <<data, ls, notCopy>>

\* mydata.set(key, val)
CopySet ==
    /\ copy.t = "Map"
    /\ \E key \in Keys, val \in CopyVals :
         \E after \in {MapV(MapSet(copy.m, key, val))} :
         /\ copy' = after
         /\ data' = SeenAtTop(data, ref, after)
         /\ last' = Call("copy.set", key, val, FALSE, Out(data, ls, 0, FALSE, FALSE))
    /\ UNCHANGED <<ls, ref, notCopy>>

\* mydata.delete(key)
CopyDelete ==
    /\ copy.t = "Map"
    /\ \E key \in Keys :
         \E after \in {MapV(MapDelete(copy.m, key))} :
         /\ copy' = after
         /\ data' = SeenAtTop(data, ref, after)
         /\ last' = Call("copy.delete", key, Undef, FALSE, Out(data, ls, 0, FALSE, FALSE))
    /\ UNCHANGED <<ls, ref, notCopy>>

\* mydata.get(key).push(null) and the like
CopyTouch ==
    /\ copy.t = "Map"
    /\ \E key \in Keys :
         /\ MapHas(copy.m, key) /\ CanTouch(MapGet(copy.m, key))
         /\ \E after \in {MapV(MapSet(copy.m, key, Touch(MapGet(copy.m, key))))} :
              /\ copy' = after
              /\ data' = SeenInside(data, ref, key, copy, after)
              /\ last' = Call("copy.touch", key, Undef, FALSE, Out(data, ls, 0, FALSE, FALSE))
    /\ UNCHANGED <<ls, ref, notCopy>>

\* store.saveAll(mydata): this.data is a new Map that is filled with mydata's values
SaveCopy ==
    /\ copy.t = "Map"
    /\ \E out \in {saveAll(data, ls, copy, FALSE)} :
         /\ data' = out.data
         /\ ls' = out.ls
         /\ last' = Call("saveAll", copy, Undef, FALSE, out)
    /\ ref' = "items"
    /\ UNCHANGED <<copy, notCopy>>

CNext == GetItems \/ CopySet \/ CopyDelete \/ CopyTouch \/ SaveCopy

SpecCopy == CInit /\ [][CNext]_vars


\* ------------------------------------------- two instances on one name
Insts == {"A", "B"}
TwoVals == {Num(1), Num(2)}
TwoObjArgs == {Obj(<<Ent("b", Num(2)), Ent("a", Num(1))>>)}
TwoKeysArgs == {Arr(<<Str("a"), Str("b")>>)}
TwoSaved == {Null, jsonify(MapV(<<Ent(Str("a"), Num(1))>>)).v}

\* this.data of an instance
DataOf(x, a, b) == IF x = "A" THEN a ELSE b

\* both instances are constructed on what localStorage holds
TInit ==
    /\ NoJson
    /\ NoCopy
    /\ NoDate
    /\ NoCookies
    /\ writer = "none"
    /\ \E saved \in TwoSaved :
         LET store == [n \in Names |-> IF n = StoreName THEN saved ELSE Null]
             out == constructor(store, FALSE) IN
         /\ data = out.data
         /\ dataB = out.data
         /\ ls = out.ls
         /\ last = Call("constructor", Undef, Undef, FALSE, out)

\* the instance x made the call op, of which out is the effect
Did(x, op, arg, val, out) ==
    /\ data' = IF x = "A" THEN out.data ELSE data
    /\ dataB' = IF x = "B" THEN out.data ELSE dataB
    /\ ls' = out.ls
    /\ writer' = IF out.writes > 0 /\ ~out.failed THEN x ELSE writer
    /\ last' = Call(op, arg, val, FALSE, out)
    /\ UNCHANGED notTwo

\* one of the pages is loaded again
TwoConstruct ==
    \E x \in Insts :
        \E out \in {constructor(ls, FALSE)} :
        Did(x, "constructor", Undef, Undef, out)

TwoSetItem ==
    \E x \in Insts, key \in Keys, val \in TwoVals :
        \E out \in {setItem(DataOf(x, data, dataB), ls, key, val, FALSE, FALSE)} :
        Did(x, "setItem", key, val, out)

TwoSetItems ==
    \E x \in Insts, objData \in TwoObjArgs :
        \E out \in {setItems(DataOf(x, data, dataB), ls, objData, FALSE, FALSE)} :
        Did(x, "setItems", objData, Undef, out)

TwoRemoveItem ==
    \E x \in Insts, key \in Keys :
        \E out \in {removeItem(DataOf(x, data, dataB), ls, key, FALSE, FALSE)} :
        Did(x, "removeItem", key, Undef, out)

TwoRemoveItems ==
    \E x \in Insts, keys \in TwoKeysArgs :
        \E out \in {removeItems(DataOf(x, data, dataB), ls, keys, FALSE, FALSE)} :
        Did(x, "removeItems", keys, Undef, out)

TwoSaveAll ==
    \E x \in Insts :
        \E out \in {saveAll(DataOf(x, data, dataB), ls, Null, FALSE)} :
        Did(x, "saveAll", Null, Undef, out)

TNext ==
    \/ TwoConstruct
    \/ TwoSetItem
    \/ TwoSetItems
    \/ TwoRemoveItem
    \/ TwoRemoveItems
    \/ TwoSaveAll

SpecTwo == TInit /\ [][TNext]_vars


\* --------------------------------------- calcExpiresDate on its own
\* the largest number written in a token, and the most tokens in a string
MaxMag == 14
MaxTokens == 2

\* the unit codes of the switch
UnitCodes == {<<"Y">>, <<"M">>, <<"D">>, <<"H">>, <<"M", "I">>, <<"S">>, <<"W">>}

\* unit codes as a caller writes them, in either case, and codes that are no unit
Codes ==
    UnitCodes
      \cup {<<"y">>, <<"m">>, <<"d">>, <<"h">>, <<"s">>, <<"w">>}
      \cup {<<"m", "i">>, <<"M", "i">>, <<"m", "I">>}
      \cup {<<"x">>, <<"d", "2">>, <<"m", "o">>}
FewCodes ==
    {<<"y">>, <<"m">>, <<"d">>, <<"h">>, <<"m", "i">>, <<"s">>, <<"w">>, <<"x">>}

Tok(n, code) == [n |-> n, code |-> code]

RECURSIVE ToDigits(_)
ToDigits(n) ==
    IF n < 10 THEN <<DigitSeq[n + 1]>> ELSE Append(ToDigits(n \div 10), DigitSeq[(n % 10) + 1])

RECURSIVE Render(_)
\* the string of a sequence of tokens: '1y 6m 12h'
Render(tl) ==
    IF tl = <<>> THEN <<>>
    ELSE ToDigits(tl[1].n) \o tl[1].code
           \o (IF Len(tl) > 1 THEN <<" ">> \o Render(Tail(tl)) ELSE <<>>)

RECURSIVE TokenSeqs(_)
TokenSeqs(k) ==
    IF k = 0 THEN {<<>>}
    ELSE LET S == TokenSeqs(k - 1) IN
         S \cup {Append(q, Tok(n, code)) : q \in S, n \in 1..2, code \in FewCodes}

\* one token of any size and code, some tokens of few sizes and codes, and the
\* examples '1y 6m 12h' and '30mi'
TokenLists ==
    {<<Tok(n, code)>> : n \in 0..MaxMag, code \in Codes}
      \cup (TokenSeqs(MaxTokens) \ {<<>>})
      \cup {<<Tok(1, <<"y">>), Tok(6, <<"m">>), Tok(12, <<"h">>)>>,
            <<Tok(30, <<"m", "i">>)>>, <<Tok(30, <<"M", "I">>)>>, <<Tok(30, <<"m">>)>>}

\* strings that are not written as tokens: '', ' ', 'abc', '5', '10', 'x5d',
\* '1y  6m', '1y abc', 'session'
RawStrings ==
    {<<>>, <<" ">>, <<"a", "b", "c">>, <<"5">>, <<"1", "0">>, <<"x", "5", "d">>,
     <<"1", "y", " ", " ", "6", "m">>, <<"1", "y", " ", "a", "b", "c">>,
     <<"s", "e", "s", "s", "i", "o", "n">>}

\* Date objects: new Date(0), 2030-06-20T11:00:00Z
Dates == {DateV(Time(0, 0)), DateV(UTC(2030, 5, 20, 11, 0, 0))}

\* the time of the call
BaseTimes ==
    {UTC(2024, 0, 15, 0, 0, 0), UTC(2024, 0, 31, 23, 59, 30),
     UTC(2023, 11, 31, 23, 0, 0), UTC(2024, 1, 29, 12, 0, 0)}

DInit ==
    /\ NoJson
    /\ NoCopy
    /\ NoSecond
    /\ NoStore
    /\ NoCookies
    /\ dpc = "call"
    /\ dres = Undef
    /\ now \in BaseTimes
    /\ \/ \E tl \in TokenLists : expires = Chars(Render(tl)) /\ dtoks = [ok |-> TRUE, l |-> tl]
       \/ \E cs \in RawStrings : expires = Chars(cs) /\ dtoks = NoToks
       \/ expires \in Dates \cup {Null} /\ dtoks = NoToks

\* dres = LmdCookies.calcExpiresDate(expires)
CalcExpiresDate ==
    /\ dpc = "call"
    /\ dres' = calcExpiresDate(expires, now)
    /\ dpc' = "done"
    /\ UNCHANGED <<now, expires, dtoks>>
    /\ UNCHANGED notDate

DNext == CalcExpiresDate

SpecDate == DInit /\ [][DNext]_vars


\* ------------------------------------------------ an LmdCookies instance
CookieNames == {<<"a">>, <<"b">>}
\* 42, 'Hello World', true, ['Earth'], and an object that refers to itself
CookieVals == {Num(42), Str("Hello World"), Bool(TRUE), Arr(<<Str("Earth")>>), SelfRef}

\* '1y 6m'
SomeTokens == <<Tok(1, <<"y">>), Tok(6, <<"m">>)>>

\* the expires argument: 'session', '', '1y 6m', 'abc', a Date, null
CookieExpires ==
    {Session, Chars(<<>>), Chars(Render(SomeTokens)), Chars(<<"a", "b", "c">>), Null}
      \cup Dates

SameSiteNone == <<"n", "o", "n", "e">>

\* new LmdCookies(null, null, null, false, sameSite) and
\* new LmdCookies('foo', null, null, true, sameSite), with sameSite 'lax' and 'none'
Configs ==
    {Config(Null, Null, Null, Bool(FALSE), sameSite) :
        sameSite \in {Chars(<<"l", "a", "x">>), Chars(SameSiteNone)}}
      \cup {Config(Chars(<<"f", "o", "o">>), Null, Null, Bool(TRUE), sameSite) :
               sameSite \in {Chars(<<"l", "a", "x">>), Chars(SameSiteNone)}}

\* what the jar holds when the page loads: b=1 and foo_b=2
JarsAtLoad ==
    {<<Cookie(<<"b">>, Text(<<TNum(1)>>)),
       Cookie(<<"f", "o", "o", "_", "b">>, Text(<<TNum(2)>>))>>}

\* the page is used at 2024-01-15T00:00:00Z
CookieTimes == {UTC(2024, 0, 15, 0, 0, 0)}

\* a page load: the instance is constructed on what the jar holds
KInit ==
    /\ NoJson
    /\ NoCopy
    /\ NoSecond
    /\ NoStore
    /\ dpc = "idle" /\ expires = Undef /\ dtoks = NoToks /\ dres = Undef
    /\ now \in CookieTimes
    /\ cfg \in Configs
    /\ jar \in JarsAtLoad
    /\ cdata = getCookies(cfg, jar, 1, <<>>).v
    /\ clast = NoSet
    /\ enabled = Null
    /\ jarN = jar
    /\ cdataN = cdata

\* the value and expires arguments of set: every value as a session cookie, 42 with
\* every expires, an array with tokens, the object that refers to itself with a string
\* that is no token
CookieCalls ==
    {[value |-> v, expires |-> Session] : v \in CookieVals}
      \cup {[value |-> Num(42), expires |-> e] : e \in CookieExpires}
      \cup {[value |-> Arr(<<Str("Earth")>>), expires |-> Chars(Render(SomeTokens))],
            [value |-> SelfRef, expires |-> Chars(<<"a", "b", "c">>)]}

KSet ==
    \E name \in CookieNames, call \in CookieCalls :
        \E out \in {set(cfg, cdata, jar, name, call.value, call.expires, now)},
           outN \in {set(cfg, cdataN, jarN, name, call.value, call.expires, now)} :
        /\ cdata' = out.data
        /\ jar' = out.jar
        /\ clast' = KCall("set", name, call.value, call.expires, out)
        /\ cdataN' = outN.data
        /\ jarN' = outN.jar
        /\ UNCHANGED <<cfg, enabled, notCookies>>

KRemove ==
    \E name \in CookieNames :
        \E out \in {remove(cfg, cdata, jar, name, now)},
           outN \in {remove(cfg, cdataN, jarN, name, now)} :
        /\ cdata' = out.data
        /\ jar' = out.jar
        /\ clast' = KCall("remove", name, Undef, Undef, out)
        /\ cdataN' = outN.data
        /\ jarN' = outN.jar
        /\ UNCHANGED <<cfg, enabled, notCookies>>

\* a read of isEnabled, in a browser that stores cookies
KIsEnabled ==
    \E out \in {isEnabled(enabled, jar, TRUE, now)} :
        /\ enabled' = out.enabled
        /\ jar' = out.jar
        /\ clast' = KCall("isEnabled", <<>>, Undef, Undef, KOut(cdata, out.jar, Undef, FALSE))
        /\ UNCHANGED <<cfg, cdata, jarN, cdataN, notCookies>>

KNext == KSet \/ KRemove \/ KIsEnabled

SpecCookies == KInit /\ [][KNext]_vars


\* ------------------------------------------------ an LmdCookie instance
\* new LmdCookie() and new LmdCookie(''), with the default sameSite, 'Strict' and ''
NoPrefixConfigs ==
    {LmdCookie(prefix, Undef, Undef, Bool(FALSE), sameSite) :
        prefix \in {Undef, Chars(<<>>)},
        sameSite \in {Undef, Chars(<<"S", "t", "r", "i", "c", "t">>), Chars(<<>>)}}

\* the value and expires arguments of setCookie: 42 with the default '', with 'abc'
\* and with a Date, and the object that refers to itself
SetCookieCalls ==
    {[value |-> Num(42), expires |-> e] :
        e \in {Chars(<<>>), Chars(<<"a", "b", "c">>), DateV(UTC(2030, 5, 20, 11, 0, 0))}}
      \cup {[value |-> SelfRef, expires |-> Chars(<<>>)]}

\* a page load: the instance is constructed without a prefix on what the jar holds
OInit ==
    /\ NoJson
    /\ NoCopy
    /\ NoSecond
    /\ NoStore
    /\ dpc = "idle" /\ expires = Undef /\ dtoks = NoToks /\ dres = Undef
    /\ now \in CookieTimes
    /\ cfg \in NoPrefixConfigs
    /\ jar \in JarsAtLoad
    /\ cdata = LmdCookie_getCookies(jar).v
    /\ clast = NoSet
    /\ NoShadow

OSetCookie ==
    \E name \in CookieNames, call \in SetCookieCalls :
        \E out \in {setCookie(cfg, cdata, jar, name, call.value, call.expires, now)} :
        /\ cdata' = out.data
        /\ jar' = out.jar
        /\ clast' = KCall("setCookie", name, call.value, call.expires, out)
        /\ UNCHANGED <<cfg, evars, notCookies>>

ORemoveCookie ==
    \E name \in CookieNames :
        \E out \in {removeCookie(cfg, cdata, jar, name, now)} :
        /\ cdata' = out.data
        /\ jar' = out.jar
        /\ clast' = KCall("removeCookie", name, Undef, Undef, out)
        /\ UNCHANGED <<cfg, evars, notCookies>>

\* the page is loaded again: the same constructor call on what the jar holds now
OReload ==
    /\ cdata' = LmdCookie_getCookies(jar).v
    /\ clast' = NoSet
    /\ UNCHANGED <<cfg, jar, evars, notCookies>>

ONext == OSetCookie \/ ORemoveCookie \/ OReload

SpecCookie == OInit /\ [][ONext]_vars

\* ------------------------------------------------------------ properties
RECURSIVE Nodes(_)
\* a value and every value inside it
Nodes(v) ==
    {v} \cup
    CASE v.t = "array" -> UNION {Nodes(v.a[i]) : i \in 1..Len(v.a)}
      [] v.t = "object" -> UNION {Nodes(v.o[i].v) : i \in 1..Len(v.o)}
      [] v.t = "Map" -> UNION {Nodes(v.m[i].k) \cup Nodes(v.m[i].v) : i \in 1..Len(v.m)}
      [] OTHER -> {}

\* null, boolean, number, string, array, plain object or Map with string keys, all the way down
JsonSafe(v) ==
    \A n \in Nodes(v) :
        /\ n.t \notin {"undefined", "function", "cyclic"}
        /\ n.t = "Map" => \A i \in 1..Len(n.m) : n.m[i].k.t = "string"

OwnKeyNodes(v, key) == {n \in Nodes(v) : n.t = "object" /\ HasOwn(n.o, key)}

\* [[k, v], ...]
IsEntriesList(x) ==
    x.t = "array" /\ \A i \in 1..Len(x.a) : x.a[i].t = "array" /\ Len(x.a[i].a) = 2

IsJson(toks) == LET r == ParseValue(toks, 1) IN r.ok /\ r.next = Len(toks) + 1

\* the outermost value of the text is an object with the sentinel key
RootIsWrapper(toks) ==
    LET r == ParseValue(toks, 1) IN r.v.t = "object" /\ HasOwn(r.v.o, mapKey)

RoundTripped == jpc = "done" /\ jsrc = "jsonify" /\ jarg.t = "Map" /\ JsonSafe(jarg)

\* C1: mapify(jsonify(C)) is C, order, depth and kinds included, for every Map C with
\* string keys and JSON-safe values
C1_RoundTrip == RoundTripped => jres = jarg /\ ~jthrew

\* C2: a collection that holds plain objects with the sentinel key, none of them
\* holding an entries list under it, round-trips to an equal collection
C2_SentinelAsData ==
    (/\ RoundTripped
     /\ OwnKeyNodes(jarg, mapKey) /= {}
     /\ OwnKeyNodes(jarg, "hasOwnProperty") = {}
     /\ \A n \in OwnKeyNodes(jarg, mapKey) : ~IsEntriesList(GetOwn(n.o, mapKey)))
    => jres = jarg

\* C3: mapify of "", null and undefined is an empty Map and nothing is thrown: a store
\* constructed on an entry that is absent (getItem gives null), that holds "", or that
\* cannot be read (savedData stays undefined) has count 0
C3_EmptyInput ==
    (last.op = "constructor" /\ (last.failed \/ ls[StoreName] \in {Null, Text(<<>>)}))
       => data = EmptyMap /\ count(data) = 0 /\ ~last.threw

\* the store is constructed on a name that has no entry
C3_Witness ==
    last.op = "constructor" /\ ~last.failed /\ ls[StoreName] = Null /\ count(data) = 0

\* C4: mapify of a string that is not JSON is an empty Map, and nothing is thrown
C4_Malformed ==
    (jpc = "done" /\ jtext.t = "text" /\ ~IsJson(jtext.toks))
       => jres = EmptyMap /\ ~jthrew

\* mapify("{not json")
C4_Witness ==
    jpc = "done" /\ jtext = Text(<<P("{"), TBad, TBad>>) /\ jres = EmptyMap

\* C5: mapify of JSON whose outermost value is not a sentinel-wrapped collection is an
\* empty Map; a Map that is not empty comes only from a root that decodes to a Map
C5_RootMustBeCollection ==
    (jpc = "done" /\ jtext.t = "text")
       => /\ (IsJson(jtext.toks) /\ ~RootIsWrapper(jtext.toks)) => jres = EmptyMap
          /\ (jres.t /= "Map" \/ count(jres) > 0)
                => IsJson(jtext.toks) /\ RootIsWrapper(jtext.toks)

\* mapify("[null]")
C5_Witness ==
    jpc = "done" /\ jtext = Text(<<P("["), TNull, P("]")>>) /\ jres = EmptyMap

Serialized == jpc \in {"text", "done"} /\ jsrc = "jsonify"

HasTag(v, tags) == \E n \in Nodes(v) : n.t \in tags

\* C6 as stated: jsonify returns '{}' for a collection that holds a cyclic reference or
\* a function anywhere, and for what is not a Map
C6_FailsOnCycleOrFunction ==
    (Serialized /\ (jarg.t /= "Map" \/ HasTag(jarg, {"cyclic", "function"})))
       => jtext = EmptyObjText

\* C6 amended: jsonify returns '{}' for a collection that holds a cyclic reference and
\* for what is not a Map; every other Map, one that holds functions included, gets its
\* wrapper text; nothing is thrown
C6_FailsOnCycle ==
    Serialized
       => /\ ~jthrew
          /\ (jarg.t /= "Map" \/ HasTag(jarg, {"cyclic"})) => jtext = EmptyObjText
          /\ (jarg.t = "Map" /\ ~HasTag(jarg, {"cyclic"}))
                => IsJson(jtext.toks) /\ RootIsWrapper(jtext.toks)

\* jsonify of a Map whose item is an object that refers to itself
C6_Witness ==
    /\ jpc = "text" /\ jsrc = "jsonify"
    /\ jarg = MapV(<<Ent(Str("a"), Obj(<<Ent("a", Cyc)>>))>>)
    /\ jtext = EmptyObjText

Mutators == {"setItem", "setItems", "removeItem", "removeItems"}

\* the data after the call l holds what the call set and lacks what it removed
Reflects(l, before, after) ==
    CASE l.op = "setItem" -> getItem(after, l.arg) = l.val
      [] l.op = "setItems" ->
            IF l.arg.t = "object"
            THEN \A i \in 1..Len(l.arg.o) : getItem(after, Str(l.arg.o[i].k)) = l.arg.o[i].v
            ELSE after = before
      [] l.op = "removeItem" -> ~MapHas(after.m, l.arg)
      [] l.op = "removeItems" -> \A i \in 1..Len(l.arg.a) : ~MapHas(after.m, l.arg.a[i])
      [] l.op = "saveAll" -> IF l.arg.t = "Map" THEN after = l.arg ELSE after = before
      [] OTHER -> TRUE

\* C7: a call of setItem, setItems, removeItem or removeItems with noSave that returns
\* leaves localStorage as it was while the data reflects it; saveAll() then writes once,
\* and the text written deserializes to the data, JSON-safe as the data model has it
C7_DeferredSave ==
    [][/\ (last'.op \in Mutators /\ last'.noSave /\ ~last'.threw)
             => ls' = ls /\ last'.writes = 0 /\ Reflects(last', data, data')
       /\ (last'.op = "saveAll" /\ last'.arg = Null /\ ~last'.failed /\ JsonSafe(data'))
             => /\ last'.writes = 1
                /\ data' = data
                /\ getStore(ls', FALSE) = data']_vars

\* two items set with noSave are in the data and not in the entry
C7_Witness ==
    /\ last.op \in Mutators /\ last.noSave /\ ~last.threw
    /\ count(data) = 2 /\ JsonSafe(data)
    /\ ls[StoreName] = Null

\* C8: removeItem of a key that is not there writes nothing and leaves the data; of a
\* key that is there, without noSave, it writes once, after which getItem and a store
\* constructed from the entry written do not have the key
C8_Removal ==
    [][last'.op = "removeItem"
         => /\ ~MapHas(data.m, last'.arg)
                 => last'.writes = 0 /\ ls' = ls /\ data' = data
            /\ (MapHas(data.m, last'.arg) /\ ~last'.noSave)
                 => /\ last'.writes = 1
                    /\ getItem(data', last'.arg) = Undef
                    /\ ~last'.failed => ~MapHas(getStore(ls', FALSE).m, last'.arg)]_vars

\* a key removed and written, another one left
C8_Witness ==
    /\ last.op = "removeItem" /\ ~last.noSave /\ last.writes = 1 /\ ~last.failed
    /\ count(data) = 1 /\ ~MapHas(data.m, last.arg)
    /\ getStore(ls, FALSE) = data

\* C9: no public call lets an exception out
C9_NeverThrows == ~last.threw

\* C10: a mutating call under which localStorage.setItem fails returns, the data
\* reflects it, and the entry is as it was
C10_StorageUnavailable ==
    [][(last'.op \in Mutators \cup {"saveAll"} /\ last'.failed)
         => ~last'.threw /\ ls' = ls /\ Reflects(last', data, data')]_vars

\* setItem on a new store with storage failing: the item is in the data, no entry
C10_Witness ==
    /\ last.op = "setItem" /\ last.failed /\ ~last.threw
    /\ getItem(data, last.arg) = last.val
    /\ ls[StoreName] = Null

\* C11: clearAll() empties the store's data and removes the store's own entry, and leaves
\* every other entry of localStorage as it was
C11_ClearAllScope ==
    [][(last'.op = "clearAll" /\ ~last'.failed)
         => /\ data' = EmptyMap
            /\ ls'[StoreName] = Null
            /\ \A n \in Names \ {StoreName} : ls'[n] = ls[n]]_vars

CopyOps == {"copy.set", "copy.delete", "copy.touch"}

\* C12: getItems() returns a Map deeply equal to the data; what the caller then does to
\* that Map or to a value inside it, before passing it to saveAll, changes neither the
\* data, nor what getItems returns, nor the entry
C12_GetItemsIsolation ==
    [][/\ last'.op = "getItems" => copy' = data /\ data' = data /\ ls' = ls
       /\ (last'.op \in CopyOps /\ ref = "fresh")
             => data' = data /\ getItems(data') = getItems(data) /\ ls' = ls]_vars

\* C12 less the deep equality: the copy is equal to the data when no plain object in the
\* data has the key mapKey, and in every case the caller's changes stay out of the store
GetItemsIsolated ==
    [][/\ (last'.op = "getItems" /\ OwnKeyNodes(data, mapKey) = {})
             => copy' = data /\ data' = data /\ ls' = ls
       /\ (last'.op \in CopyOps /\ ref = "fresh")
             => data' = data /\ getItems(data') = getItems(data) /\ ls' = ls]_vars

\* C13: after saveAll(M) with a Map M the data is M, keys, values and order, and the
\* entry written deserializes to it; saveAll() and saveAll of what is not a Map keep the
\* data and write it
C13_SaveAllReplaces ==
    [][(last'.op = "saveAll" /\ ~last'.failed)
         => /\ last'.writes = 1
            /\ ls'[StoreName] = jsonify(data').v
            /\ IF last'.arg.t = "Map"
               THEN data' = last'.arg /\ getStore(ls', FALSE) = data'
               ELSE data' = data]_vars

\* C14: with two instances on one store name, the entry is the serialization of the data
\* of the instance that wrote last, whatever the other instance had written: a write
\* replaces the entry, merges nothing, throws nothing and leaves the other instance's
\* data as it was
C14_LastWriterWins ==
    [][/\ writer' /= "none"
             => ls'[StoreName] = jsonify(DataOf(writer', data', dataB')).v
       /\ (last'.writes > 0 /\ dataB' /= Undef)
             => /\ ~last'.threw /\ ~last'.failed
                /\ getStore(ls', FALSE) = DataOf(writer', data', dataB')
                /\ DataOf(writer', dataB', data') = DataOf(writer', dataB, data)]_vars

\* A persisted the key a; B, constructed before that, wrote last, and the entry has no a
C14_Witness ==
    /\ writer = "B" /\ last.writes = 1
    /\ MapHas(data.m, Str("a")) /\ ~MapHas(dataB.m, Str("a")) /\ MapHas(dataB.m, Str("b"))
    /\ ~MapHas(getStore(ls, FALSE).m, Str("a"))
    /\ ls[StoreName] = jsonify(dataB).v

\* ---- calcExpiresDate
Called == dpc = "done" /\ dtoks.ok

Unit(tok) == toUpperCase(tok.code)
Recognised(tok) == Unit(tok) \in UnitCodes
AllRecognised(tl) == \A i \in 1..Len(tl) : Recognised(tl[i])

\* a time some seconds later
AddSeconds(tv, k) == Time(tv.day + (tv.sec + k) \div 86400, (tv.sec + k) % 86400)

\* the same day of the month and time of day, n months later in the calendar: a month
\* past December is a month of the next year, a day past the end of the month a day of
\* the month after
AddMonths(tv, n) ==
    LET c == CivilFromDays(tv.day)
        months == c.y * 12 + (c.m - 1) + n IN
    Time(DaysFromCivil(months \div 12, (months % 12) + 1, 1) + c.d - 1, tv.sec)

\* the seconds of a unit of fixed length
SecondsOf(u) ==
    CASE u = <<"D">> -> 86400
      [] u = <<"H">> -> 3600
      [] u = <<"M", "I">> -> 60
      [] u = <<"S">> -> 1
      [] u = <<"W">> -> 7 * 86400

Shift(tv, n, u) ==
    CASE u = <<"Y">> -> AddMonths(tv, 12 * n)
      [] u = <<"M">> -> AddMonths(tv, n)
      [] OTHER -> AddSeconds(tv, n * SecondsOf(u))

RECURSIVE ShiftAll(_, _, _)
\* the tokens applied left to right, each to the result of the one before
ShiftAll(tv, tl, i) ==
    IF i > Len(tl) THEN tv ELSE ShiftAll(Shift(tv, tl[i].n, Unit(tl[i])), tl, i + 1)

Example == Chars(<<"1", "y", " ", "6", "m", " ", "1", "2", "h">>)

\* C15: the tokens are applied left to right as UTC calendar additions to the time of
\* the call, Y to the year, M to the month with the overflow carried into the year, the
\* other units by their amount; '1y 6m 12h' at 2024-01-15T00:00:00Z is
\* 2025-07-15T12:00:00Z
C15_DurationArithmetic ==
    /\ (Called /\ AllRecognised(dtoks.l))
          => dres = Ret(toUTCString(ShiftAll(now, dtoks.l, 1)))
    /\ (dpc = "done" /\ expires = Example /\ now = UTC(2024, 0, 15, 0, 0, 0))
          => dres = Ret([wd |-> "Tue", date |-> 15, mon |-> "Jul", year |-> 2025,
                         h |-> 12, mi |-> 0, s |-> 0])

\* '1y 6m 12h' evaluated at 2024-01-15T00:00:00Z
C15_Witness ==
    /\ dpc = "done" /\ expires = Example /\ now = UTC(2024, 0, 15, 0, 0, 0)
    /\ ~dres.threw /\ dres.v.year = 2025 /\ dres.v.mon = "Jul" /\ dres.v.h = 12

\* C16: n followed by MI in any case adds n minutes, never n months; n followed by M in
\* either case adds n calendar months; each of the seven codes gives the same result in
\* upper and in lower case
C16_MinuteVersusMonth ==
    (Called /\ Len(dtoks.l) = 1)
       => LET tok == dtoks.l[1] IN
          /\ Unit(tok) = <<"M", "I">>
                => /\ dres = Ret(toUTCString(AddSeconds(now, 60 * tok.n)))
                   /\ tok.n > 0 => dres /= Ret(toUTCString(AddMonths(now, tok.n)))
          /\ Unit(tok) = <<"M">> => dres = Ret(toUTCString(AddMonths(now, tok.n)))
          /\ Recognised(tok)
                => dres = calcExpiresDate(Chars(Render(<<Tok(tok.n, Unit(tok))>>)), now)

\* '30mi' at 2024-01-15T00:00:00Z is 00:30:00 of the same day
C16_Witness ==
    /\ dpc = "done" /\ now = UTC(2024, 0, 15, 0, 0, 0)
    /\ expires = Chars(<<"3", "0", "m", "i">>)
    /\ dres = Ret(toUTCString(UTC(2024, 0, 15, 0, 30, 0)))

FixedUnits == {<<"D">>, <<"H">>, <<"M", "I">>, <<"S">>, <<"W">>}

RECURSIVE TotalSeconds(_)
TotalSeconds(tl) ==
    IF tl = <<>> THEN 0 ELSE tl[1].n * SecondsOf(Unit(tl[1])) + TotalSeconds(Tail(tl))

\* C17: D, H, MI, S and W tokens move the time by n*86400, n*3600, n*60, n and n*7*86400
\* seconds whatever the time of the call; '2w' gives what '14d' gives, 14 days later
C17_FixedDurationUnits ==
    /\ (Called /\ \A i \in 1..Len(dtoks.l) : Unit(dtoks.l[i]) \in FixedUnits)
          => dres = Ret(toUTCString(AddSeconds(now, TotalSeconds(dtoks.l))))
    /\ (dpc = "done" /\ expires = Chars(<<"2", "w">>))
          => /\ dres = calcExpiresDate(Chars(<<"1", "4", "d">>), now)
             /\ dres = Ret(toUTCString(Time(now.day + 14, now.sec)))

\* '2w' at 2024-01-31T23:59:30Z is 2024-02-14T23:59:30Z
C17_Witness ==
    /\ dpc = "done" /\ expires = Chars(<<"2", "w">>) /\ now = UTC(2024, 0, 31, 23, 59, 30)
    /\ dres = Ret(toUTCString(UTC(2024, 1, 14, 23, 59, 30)))

\* no part of the string between white space is digits followed by one of the seven codes
NoTokenParses(cs) ==
    LET tokens == split(cs, 1, <<>>) IN
    \A i \in 1..Len(tokens) :
        LET m == match(tokens[i]) IN ~m.found \/ toUpperCase(m.tok) \notin UnitCodes

\* C18: for the empty string and for a string no token of which parses, calcExpiresDate
\* returns the time of the call plus one calendar year
C18_DefaultExpiration ==
    (dpc = "done" /\ expires.t = "string" /\ NoTokenParses(expires.cs))
       => dres = Ret(toUTCString(AddMonths(now, 12)))

\* C18 for the strings without any token: '' and white space
DefaultOfNoTokens ==
    (dpc = "done" /\ expires.t = "string" /\ split(expires.cs, 1, <<>>) = <<>>)
       => dres = Ret(toUTCString(AddMonths(now, 12)))

\* C19: a token with a code that is no unit adds nothing and raises no error, the other
\* tokens are applied, and the result is that of the string without the token
C19_UnrecognisedUnitCodes ==
    (Called /\ ~AllRecognised(dtoks.l))
       => /\ ~dres.threw
          /\ dres = Ret(toUTCString(ShiftAll(now, SelectSeq(dtoks.l, Recognised), 1)))
          /\ dres = calcExpiresDate(Chars(Render(SelectSeq(dtoks.l, Recognised))), now)

\* C19 for the strings in which a token with a unit is left
UnrecognisedAmongOthers ==
    (Called /\ ~AllRecognised(dtoks.l) /\ SelectSeq(dtoks.l, Recognised) /= <<>>)
       => /\ ~dres.threw
          /\ dres = calcExpiresDate(Chars(Render(SelectSeq(dtoks.l, Recognised))), now)

\* C20: set writes the expires attribute by exactly one of three modes, chosen by the
\* expires argument: a Date is written as it is, 'session' gives a text without the
\* attribute, any other string is evaluated as tokens at the time of the call
C20_ExpirationModes ==
    (clast.op = "set" /\ ~HasTag(clast.value, {"cyclic"}))
       => /\ clast.expires.t = "Date"
                => /\ clast.text /= Undef
                   /\ clast.text.expires = toUTCString(clast.expires.d)
          /\ clast.expires = Session
                => clast.text /= Undef /\ clast.text.expires = Undef
          /\ (clast.expires.t = "string" /\ clast.expires /= Session)
                => LET r == calcExpiresDate(clast.expires, now) IN
                   IF r.threw THEN clast.text = Undef
                   ELSE clast.text /= Undef /\ clast.text.expires = r.v
          /\ clast.expires = Chars(Render(SomeTokens))
                => /\ clast.text /= Undef
                   /\ clast.text.expires = toUTCString(ShiftAll(now, SomeTokens, 1))

\* set('a', 42, '1y 6m') at 2024-01-15T00:00:00Z wrote expires=Tue, 15 Jul 2025 ...
C20_Witness ==
    /\ clast.op = "set" /\ clast.expires = Chars(Render(SomeTokens))
    /\ now = UTC(2024, 0, 15, 0, 0, 0)
    /\ clast.text /= Undef
    /\ clast.text.expires = toUTCString(UTC(2025, 6, 15, 0, 0, 0))

\* C21: an instance constructed with sameSite 'none' has secure forced to true, so every
\* cookie text set or remove writes with samesite=none carries the secure attribute
C21_SameSiteNoneSecure ==
    /\ cfg /= Undef => (cfg.cookieSamesite = SameSiteNone => cfg.cookieSecure)
    /\ (clast.op \in {"set", "remove"} /\ clast.text /= Undef)
          => (clast.text.samesite = SameSiteNone => clast.text.secure)

\* new LmdCookies(null, null, null, false, 'none') has written a cookie text
C21_Witness ==
    /\ cfg = Config(Null, Null, Null, Bool(FALSE), Chars(SameSiteNone))
    /\ clast.op = "remove"
    /\ clast.text /= Undef
    /\ clast.text.samesite = SameSiteNone /\ clast.text.secure

\* ---- an LmdCookies instance
\* the expires argument names no time up to the time of the call
ExpiresLater(exp, tv) ==
    \/ exp = Session
    \/ exp.t = "Date" /\ ~NotAfter(exp.d, tv)
    \/ /\ exp.t = "string" /\ exp /= Session
       /\ LET r == calcExpiresDate(exp, tv) IN ~r.threw /\ ~NotAfter(TimeOf(r.v), tv)

\* the name under which the jar holds the cookie name of the instance
NameInJar(name) == cfg.cookiePrefixEnc \o encodeURIComponent(name)

InJar(name) == \E i \in 1..Len(jar) : jar[i].name = NameInJar(name)

RemovedOne ==
    /\ clast.op = "remove" /\ clast.name = <<"b">>
    /\ ~InJar(<<"b">>) /\ InJar(<<"a">>)

\* this.data was read from the jar as it is now: by the constructor, or by a set or a
\* remove that assigned its text
Fresh == clast.op = "none" \/ (clast.op \in {"set", "remove"} /\ clast.text /= Undef)

\* the cookies of the jar whose name starts with the prefix of the instance
Prefixed == {i \in 1..Len(jar) : StartsWith(jar[i].name, cfg.cookiePrefixEnc)}

\* C23: with a prefix, this.data, count, has and get cover the cookies whose name starts
\* with '<prefix>_' and no other cookie of the jar; set, get, has and remove add the
\* prefix, so that set(name, v) is read back by get(name); with no prefix every cookie of
\* the jar is retrieved and counted
C23_PrefixScoping ==
    cfg /= Undef =>
       /\ \A i \in 1..Len(cdata.o) : StartsWith(cdata.o[i].k, cfg.cookiePrefix)
       /\ \A i \in 1..Len(jar) :
             i \notin Prefixed => ~HasOwn(cdata.o, decodeURIComponent(jar[i].name).v)
       /\ Fresh =>
             /\ cookieCount(cdata) = Cardinality(Prefixed)
             /\ \A i \in Prefixed : HasOwn(cdata.o, decodeURIComponent(jar[i].name).v)
             /\ cfg.cookiePrefix = <<>> => cookieCount(cdata) = Len(jar)
       /\ (clast.op \in {"set", "remove"} /\ clast.text /= Undef)
             => clast.text.name = cfg.cookiePrefixEnc \o clast.name
       /\ (clast.op = "set" /\ JsonSafe(clast.value) /\ ExpiresLater(clast.expires, now))
             => /\ get(cfg, cdata, clast.name) = clast.value
                /\ GetOwn(cdata.o, cfg.cookiePrefix \o clast.name) = clast.value
                /\ InJar(clast.name)

\* new LmdCookies('foo') on a jar with b and foo_b, after set('a', ...): b is not seen
C23_Witness ==
    /\ cfg /= Undef /\ cfg.cookiePrefix = <<"f", "o", "o", "_">>
    /\ clast.op = "set" /\ clast.name = <<"a">>
    /\ Len(jar) = 3 /\ cookieCount(cdata) = 2
    /\ has(cfg, cdata, <<"a">>) /\ has(cfg, cdata, <<"b">>)
    /\ get(cfg, cdata, <<"b">>) = Num(2)

\* new LmdCookies() on the same jar sees b and foo_b
NoPrefixSeesAll ==
    /\ cfg /= Undef /\ cfg.cookiePrefix = <<>>
    /\ Len(jar) = 3 /\ cookieCount(cdata) = 3
    /\ get(cfg, cdata, <<"b">>) = Num(1)
    /\ get(cfg, cdata, <<"f", "o", "o", "_", "b">>) = Num(2)

\* ---- an LmdCookie instance
\* C24: an LmdCookie constructed without a prefix, or with the empty string, uses no
\* prefix: setCookie(name, v) writes a cookie whose name is name, and getCookie(name)
\* looks up name
C24_DefaultPrefix ==
    cfg /= Undef =>
       /\ cfg.cookiePrefix = <<>>
       /\ (clast.op = "setCookie" /\ clast.text /= Undef)
             => clast.text.name = encodeURIComponent(clast.name)
       /\ \A name \in CookieNames : getCookie(cfg, cdata, name) = GetOwn(cdata.o, name)

\* the constructor called with sameSite '' does use no prefix
NoPrefixWithoutSameSite ==
    (cfg /= Undef /\ cfg = LmdCookie(Undef, Undef, Undef, Bool(FALSE), Chars(<<>>)))
       => /\ cfg.cookiePrefix = <<>>
          /\ (clast.op = "setCookie" /\ clast.text /= Undef)
                => clast.text.name = encodeURIComponent(clast.name)
          /\ \A name \in CookieNames : getCookie(cfg, cdata, name) = GetOwn(cdata.o, name)

\* ---- persisted and in-memory data
\* the entry store[StoreName] deserializes to the data d, an absent entry counting as
\* empty
Agree(store, d) == getStore(store, FALSE) = d

\* a call that changes the store, saves, meets no failure of the storage API and is
\* given JSON-safe values only
CleanCall(c) ==
    /\ c.op \in {"setItem", "setItems", "removeItem", "removeItems", "saveAll", "clearAll"}
    /\ ~c.noSave /\ ~c.failed
    /\ c.arg = Undef \/ JsonSafe(c.arg)
    /\ c.val = Undef \/ JsonSafe(c.val)

\* C25: the entry and the data agree after construction, and after every call that saves,
\* does not fail and is given JSON-safe values, when they agreed before it
C25_PersistedAgreement ==
    [][/\ (last'.op = "constructor" /\ ~last'.failed) => Agree(ls', data')
       /\ (Agree(ls, data) /\ CleanCall(last')) => Agree(ls', data')]_vars

\* C26: setItem, saving, of a value with a cyclic reference returns normally, the data
\* keeps the new key and every earlier key, and the entry is overwritten with '{}', from
\* which a store constructed afterwards is empty
C26_UnserialisableWipesEntry ==
    [][(/\ last'.op = "setItem" /\ ~last'.noSave /\ ~last'.failed
        /\ HasTag(last'.val, {"cyclic"}))
         => /\ ~last'.threw
            /\ data' = MapV(MapSet(data.m, last'.arg, last'.val))
            /\ \A i \in 1..Len(data.m) : MapHas(data'.m, data.m[i].k)
            /\ ls'[StoreName] = EmptyObjText
            /\ constructor(ls', FALSE).data = EmptyMap]_vars

\* setItem('b', self) after 'a' had been persisted: two keys in memory, '{}' persisted
C26_Witness ==
    /\ last.op = "setItem" /\ last.arg = Str("b") /\ last.val = SelfRef
    /\ ~last.noSave /\ ~last.failed
    /\ MapHas(data.m, Str("a")) /\ MapHas(data.m, Str("b"))
    /\ ls[StoreName] = EmptyObjText

\* the call l, made on the data before, is one of those the claim says write the entry
WritingCall(l, before) ==
    CASE l.op = "setItem" -> ~l.noSave
      [] l.op = "setItems" -> ~l.noSave /\ l.arg.t = "object" /\ Len(l.arg.o) > 0
      [] l.op = "removeItem" -> ~l.noSave /\ MapHas(before.m, l.arg)
      [] l.op = "removeItems" ->
            ~l.noSave /\ \E i \in 1..Len(l.arg.a) : MapHas(before.m, l.arg.a[i])
      [] l.op = "saveAll" -> TRUE
      [] OTHER -> FALSE

\* C27: a setItem or setItems that saves, a removeItem or removeItems that saves and
\* deletes a key, and saveAll write the serialization of the whole data, what earlier
\* calls changed with noSave included; a call with noSave, a removeItem of an absent key
\* and setItems of an empty object write nothing and leave the entry as it was
C27_DeferredRideAlong ==
    [][(last'.op \in Mutators \cup {"saveAll"} /\ ~last'.threw)
         => IF WritingCall(last', data)
            THEN /\ last'.writes = 1
                 /\ ~last'.failed => ls'[StoreName] = jsonify(data').v
            ELSE last'.writes = 0 /\ ls' = ls]_vars

\* removeItem('b') wrote an entry that holds the key 'a' as well
C27_Witness ==
    /\ last.op = "removeItem" /\ last.arg = Str("b") /\ last.writes = 1 /\ ~last.failed
    /\ getItem(data, Str("a")) = Num(1)
    /\ getStore(ls, FALSE) = data

\* setItems({}) after a change made with noSave: the entry does not hold the change
LeftUnpersisted ==
    /\ last.op = "setItems" /\ last.arg = Obj(<<>>) /\ ~last.noSave
    /\ getItem(data, Str("a")) = Num(1)
    /\ getStore(ls, FALSE) = EmptyMap

\* ---- saveAll and the caller's Map
\* C28: after saveAll(M) the data is M's content at the time of the call, and what the
\* caller then does to M, or to a Map, object or array inside M, changes no result of
\* getItem
C28_SaveAllSnapshot ==
    [][/\ (last'.op = "saveAll" /\ last'.arg.t = "Map") => data' = last'.arg
       /\ (last'.op \in CopyOps /\ ref = "items")
             => \A key \in Keys : getItem(data', key) = getItem(data, key)]_vars

\* C28 for M itself: after saveAll(M), M.set and M.delete change nothing in the store
SaveAllCopiesTheMap ==
    [][/\ (last'.op = "saveAll" /\ last'.arg.t = "Map") => data' = last'.arg
       /\ (last'.op \in {"copy.set", "copy.delete"} /\ ref = "items")
             => data' = data /\ ls' = ls]_vars

\* ---- isEnabled
\* the keys of this.data
KeysOf(d) == {d.o[i].k : i \in 1..Len(d.o)}

\* C29: the reads of isEnabled made among the set and remove calls change neither the
\* names has and get report nor count, with and without a prefix
C29_IsEnabledNeutral ==
    cfg /= Undef =>
       /\ KeysOf(cdata) = KeysOf(cdataN)
       /\ cookieCount(cdata) = cookieCount(cdataN)
       /\ \A name \in CookieNames \cup {testKey} :
             /\ has(cfg, cdata, name) = has(cfg, cdataN, name)
             /\ get(cfg, cdata, name) = get(cfg, cdataN, name)

\* C29 for the instances with a prefix
NeutralWithPrefix == (cfg /= Undef /\ cfg.cookiePrefix /= <<>>) => C29_IsEnabledNeutral

\* ---- set that fails
\* the expires string has a token that /(\d+)(\w+)/i does not match
SomeTokenUnmatched(exp) ==
    /\ exp.t = "string" /\ exp /= Session
    /\ LET tokens == split(exp.cs, 1, <<>>) IN
       \E i \in 1..Len(tokens) : ~match(tokens[i]).found

\* C30: a set whose value cannot be serialised, or whose expires string has a token that
\* does not match, assigns no cookie text, leaves the jar and this.data as they were, so
\* that has, get and count answer as before, and returns normally
C30_FailedSetAtomic ==
    [][(/\ clast'.op = "set"
        /\ HasTag(clast'.value, {"cyclic"}) \/ SomeTokenUnmatched(clast'.expires))
         => /\ clast'.text = Undef
            /\ ~clast'.threw
            /\ jar' = jar
            /\ cdata' = cdata
            /\ cookieCount(cdata') = cookieCount(cdata)
            /\ \A name \in CookieNames :
                  /\ has(cfg', cdata', name) = has(cfg, cdata, name)
                  /\ get(cfg', cdata', name) = get(cfg, cdata, name)]_vars

\* set('a', 42, 'abc') on an instance that holds a and b
C30_Witness ==
    /\ clast.op = "set" /\ clast.name = <<"a">> /\ clast.value = Num(42)
    /\ clast.expires = Chars(<<"a", "b", "c">>)
    /\ clast.text = Undef /\ ~clast.threw
    /\ get(cfg, cdata, <<"a">>) = Str("Hello World")
    /\ has(cfg, cdata, <<"b">>)

\* set('a', self) failed as well
FailedOnCycle ==
    /\ clast.op = "set" /\ clast.value = SelfRef /\ clast.expires = Session
    /\ clast.text = Undef /\ ~clast.threw
    /\ get(cfg, cdata, <<"a">>) = Num(42)

====
